---- MODULE Spec2Model ----
(***************************************************************************)
(* A model of formic (src/formic/formic.py, src/formic/treewalk.py): the   *)
(* Ant-glob compiler (Pattern.create), the directory matcher               *)
(* (Pattern.match_directory), PatternSet, FileSetState and the FileSet     *)
(* traversal driver.                                                       *)
(*                                                                         *)
(* Python strings are modelled as sequences of one-character strings, so   *)
(* "a/b" is <<"a", "/", "b">>.  The platform is POSIX: os.name = 'posix',  *)
(* os.path.sep = "/", os.path.normcase is the identity.                    *)
(***************************************************************************)
EXTENDS Integers, Sequences, FiniteSets, TLC

VARIABLES
    pc,          \* position of the run
    \* Pattern.create on a glob string
    glob, compiled, rendered, recompiled, floating,
    \* Pattern.match_directory on a directory and on an extension of it
    pat, path, ext, mres, mext,
    \* a FileSet and one enumeration of it
    cfg,         \* the constructor's arguments and the walk function
    listing,     \* the tree, as the list of its file paths
    fset,        \* the FileSet
    wq,          \* the directories the walker has yet to yield
    inc_state,   \* files(): the include state of the previous directory
    exc_state,   \* files(): the exclude state of the previous directory
    visited,     \* the relative directories yielded so far
    pruned,      \* those of them whose dirs list _receive emptied
    emitted,     \* the (rel_dir_name, file_name) pairs yielded so far
    hashseed,    \* the process's string hashing, as the order sets iterate in
    run,         \* which call of files() on this FileSet is under way
    first_emitted, \* what the first call of files() yielded
    \* a wildcard token against one name
    wtoken,      \* the token, also compiled as a file pattern
    wname,       \* the name
    wcase,       \* casesensitive
    token_ok,    \* Matcher.create(wtoken).match(wname)
    file_ok,     \* whether the pattern's file_filter keeps wname
    \* command.main
    argv,        \* the parsed arguments
    interp,      \* the major version of the Python that runs it
    printed,     \* what went to the terminal besides the file lines
    stdout,      \* the file lines written
    returned,    \* <<>> until main returns, then <<its value>>
    raised,      \* the exception that left main, or "none"
    \* Section.match_iter on one section
    isection,    \* the section
    ipath,       \* path_elements
    istart,      \* start_at
    iends,       \* list(section.match_iter(path_elements, start_at))
    igeneric,    \* list(section._match_iter_generic(path_elements, start_at))
    \* one PatternSet under a sequence of operations
    pset,        \* the PatternSet
    pset_answer, \* what the last all_files() returned, or "pending"
    pset_raised, \* the exception of the last operation, or "none"
    \* one generator made by pset.iter(), and the loop that drives it
    gen_state,   \* "none", "new" (made, not yet run), "running" or "done"
    gen_snapshot, \* the generator's local list, once it has run
    pset_begun,  \* the patterns in pset when the generator first ran
    pset_yielded, \* the patterns yielded so far
    \* one chain of FileSetState instances along a walk
    chain_seeds, \* the PatternSet the root state is built from
    chain_state, \* <<>>, or <<the state of the directory yielded last>>
    chain_walked, \* the directories yielded so far
    chain_files, \* the files last passed to match()
    chain_answer \* <<>>, or <<what match() returned>>

cvars == <<glob, compiled, rendered, recompiled, floating>>
mvars == <<pat, path, ext, mres, mext>>
fvars == <<cfg, listing, fset, wq, inc_state, exc_state, visited, pruned, emitted,
           hashseed, run, first_emitted>>
wvars == <<wtoken, wname, wcase, token_ok, file_ok>>
avars == <<argv, interp, printed, stdout, returned, raised>>
ivars == <<isection, ipath, istart, iends, igeneric>>
svars == <<pset, pset_answer, pset_raised>>
gvars == <<gen_state, gen_snapshot, pset_begun, pset_yielded>>
hvars == <<chain_seeds, chain_state, chain_walked, chain_files, chain_answer>>
xvars == <<wvars, avars, ivars, svars, gvars, hvars>>
\* for each of these groups, the other ones
wrest == <<avars, ivars, svars, gvars, hvars>>
arest == <<wvars, ivars, svars, gvars, hvars>>
irest == <<wvars, avars, svars, gvars, hvars>>
srest == <<wvars, avars, ivars, gvars, hvars>>
grest == <<wvars, avars, ivars, hvars>>
hrest == <<wvars, avars, ivars, svars, gvars>>
vars == <<pc, cvars, mvars, fvars, xvars>>

-----------------------------------------------------------------------------
(* Bounds of the model *)

\* longest glob string drawn for the compiler
MaxGlobLen == 5
\* most components in the directory part of a glob drawn for the matcher
MaxGlobParts == 4
\* deepest directory handed to match_directory, and longest extension of it
MaxPathLen == 3
MaxExtLen == 2
\* most file paths in a tree
MaxTreeFiles == 2
\* most patterns in the PatternSet operated on, and in a list it is extended by
MaxSetLen == 3
MaxExtendLen == 2
\* most patterns in a PatternSet that is changed while it is iterated
MaxIterLen == 3
\* longest section handed to match_iter
MaxSectionLen == 2
\* longest wildcard token, and longest name matched against it
MaxWildLen == 4
MaxNameLen == 2

-----------------------------------------------------------------------------
(* Strings *)

STARSTAR == <<"*", "*">>
STAR == <<"*">>
DOT == <<".">>
DOTDOT == <<".", ".">>
EMPTY == <<>>
SEP == "/"

\* all sequences over S of length at most n
RECURSIVE SeqsUpTo(_, _)
SeqsUpTo(S, n) ==
    IF n = 0 THEN {<<>>}
    ELSE LET shorter == SeqsUpTo(S, n - 1)
         IN  shorter \cup {Append(s, c) : s \in {t \in shorter : Len(t) = n - 1}, c \in S}

LowerChar(c) ==
    CASE c = "A" -> "a" [] c = "B" -> "b" [] c = "C" -> "c" [] c = "D" -> "d"
      [] c = "S" -> "s" [] c = "V" -> "v" [] c = "X" -> "x"
      [] OTHER -> c

\* str.lower()
lower(s) == [i \in 1..Len(s) |-> LowerChar(s[i])]

UpperChar(c) ==
    CASE c = "a" -> "A" [] c = "b" -> "B" [] c = "c" -> "C" [] c = "d" -> "D"
      [] c = "s" -> "S" [] c = "v" -> "V" [] c = "x" -> "X"
      [] OTHER -> c

upper(s) == [i \in 1..Len(s) |-> UpperChar(s[i])]

\* str.replace('\\', '/')
replace_backslash(s) == [i \in 1..Len(s) |-> IF s[i] = "\\" THEN "/" ELSE s[i]]

\* str.replace('//', '/'): one left-to-right pass over non-overlapping pairs
RECURSIVE replace_double_sep(_)
replace_double_sep(s) ==
    IF Len(s) < 2 THEN s
    ELSE IF s[1] = SEP /\ s[2] = SEP
         THEN <<SEP>> \o replace_double_sep(SubSeq(s, 3, Len(s)))
         ELSE <<s[1]>> \o replace_double_sep(Tail(s))

\* str.split('/')
RECURSIVE split_acc(_, _, _)
split_acc(s, cur, acc) ==
    IF s = <<>> THEN Append(acc, cur)
    ELSE IF Head(s) = SEP THEN split_acc(Tail(s), <<>>, Append(acc, cur))
         ELSE split_acc(Tail(s), Append(cur, Head(s)), acc)

split(s) == split_acc(s, <<>>, <<>>)

\* sep.join(parts)
RECURSIVE join(_, _)
join(sep, parts) ==
    IF parts = <<>> THEN <<>>
    ELSE IF Len(parts) = 1 THEN parts[1]
         ELSE parts[1] \o sep \o join(sep, Tail(parts))

Contains(s, c) == \E i \in 1..Len(s) : s[i] = c

-----------------------------------------------------------------------------
(* fnmatch.fnmatch on POSIX: '*' any run, '?' one character, '[seq]' and   *)
(* '[!seq]' a character class when a closing ']' exists, '[' itself        *)
(* otherwise.                                                              *)

\* index of the ']' closing the class opened just before position i, or 0
RECURSIVE class_scan(_, _)
class_scan(p, j) ==
    IF j > Len(p) THEN 0
    ELSE IF p[j] = "]" THEN j
         ELSE class_scan(p, j + 1)

class_end(p) ==
    \* p starts right after the '['
    LET j1 == IF Len(p) >= 1 /\ p[1] = "!" THEN 2 ELSE 1
        j2 == IF j1 <= Len(p) /\ p[j1] = "]" THEN j1 + 1 ELSE j1
    IN  class_scan(p, j2)

RECURSIVE fnmatchcase(_, _)
fnmatchcase(name, wild) ==
    IF wild = <<>> THEN name = <<>>
    ELSE IF Head(wild) = "*"
         THEN fnmatchcase(name, Tail(wild))
              \/ (name # <<>> /\ fnmatchcase(Tail(name), wild))
    ELSE IF Head(wild) = "?"
         THEN name # <<>> /\ fnmatchcase(Tail(name), Tail(wild))
    ELSE IF Head(wild) = "[" /\ class_end(Tail(wild)) # 0
         THEN LET rest == Tail(wild)
                  j == class_end(rest)
                  stuff == SubSeq(rest, 1, j - 1)
                  negate == stuff[1] = "!"
                  members == IF negate THEN SubSeq(stuff, 2, Len(stuff)) ELSE stuff
              IN  /\ name # <<>>
                  /\ (Contains(members, Head(name)) # negate)
                  /\ fnmatchcase(Tail(name), SubSeq(rest, j + 1, Len(rest)))
    ELSE name # <<>> /\ Head(name) = Head(wild) /\ fnmatchcase(Tail(name), Tail(wild))

-----------------------------------------------------------------------------
(* Matcher *)

\* Matcher.create: FNMatcher when the pattern holds '?' or '*', else ConstantMatcher
Matcher_create(pattern, casesensitive) ==
    [pattern |-> pattern,
     fn |-> (Contains(pattern, "?") \/ Contains(pattern, "*")),
     casesensitive |-> casesensitive]

\* FNMatcher.match / ConstantMatcher.match
Matcher_match(m, string) ==
    IF m.fn
    THEN IF m.casesensitive
         THEN fnmatchcase(string, m.pattern)
         ELSE fnmatchcase(lower(string), lower(m.pattern))
    ELSE IF m.casesensitive
         THEN m.pattern = string
         ELSE lower(m.pattern) = lower(string)

-----------------------------------------------------------------------------
(* Section *)

Section_init(elements, casesensitive) ==
    [elements |-> [i \in 1..Len(elements) |-> Matcher_create(elements[i], casesensitive)],
     bound_start |-> FALSE,
     bound_end |-> FALSE]

\* Section.str
Section_str(section) ==
    join(<<SEP>>, [i \in 1..Len(section.elements) |-> section.elements[i].pattern])

-----------------------------------------------------------------------------
(* Pattern compilation *)

\* a faulty loop of Pattern._simplify: '..' is passed over like '.'
RECURSIVE simplify_loop_dotdot_dropped(_, _)
simplify_loop_dotdot_dropped(elements, simplified) ==
    IF elements = <<>> THEN [err |-> "none", elements |-> simplified]
    ELSE IF Head(elements) \in {DOT, DOTDOT}
         THEN simplify_loop_dotdot_dropped(Tail(elements), simplified)
    ELSE IF /\ Head(elements) = STARSTAR
            /\ simplified # <<>>
            /\ simplified[Len(simplified)] = STARSTAR
         THEN simplify_loop_dotdot_dropped(Tail(elements), simplified)
    ELSE simplify_loop_dotdot_dropped(Tail(elements), Append(simplified, Head(elements)))

\* the loop of Pattern._simplify: "err" is set by a '..' element
RECURSIVE simplify_loop(_, _)
simplify_loop(elements, simplified) ==
    IF elements = <<>> THEN [err |-> "none", elements |-> simplified]
    ELSE LET element == Head(elements)
         IN  IF element = DOTDOT THEN [err |-> "FormicError", elements |-> <<>>]
             ELSE IF element = DOT THEN simplify_loop(Tail(elements), simplified)
             ELSE IF /\ element = STARSTAR
                     /\ simplified # <<>>
                     /\ simplified[Len(simplified)] = STARSTAR
                  THEN simplify_loop(Tail(elements), simplified)
             ELSE simplify_loop(Tail(elements), Append(simplified, element))

\* the trailing-slash rewrite of Pattern._simplify
simplify_trailing(simplified) ==
    IF simplified[Len(simplified)] = EMPTY
    THEN [simplified EXCEPT ![Len(simplified)] = STARSTAR]
    ELSE simplified

\* the leading-slash / implicit-'**' step of Pattern._simplify
simplify_leading(simplified) ==
    IF simplified[1] = EMPTY THEN Tail(simplified)
    ELSE IF simplified[1] # STARSTAR THEN <<STARSTAR>> \o simplified
         ELSE simplified

\* Pattern._simplify; simplified[-1] on an empty list raises IndexError
simplify(elements) ==
    LET looped == simplify_loop(elements, <<>>)
    IN  IF looped.err # "none" THEN looped
        ELSE IF looped.elements = <<>> THEN [err |-> "IndexError", elements |-> <<>>]
        ELSE [err |-> "none",
              elements |-> simplify_leading(simplify_trailing(looped.elements))]

\* the fragment loop of Pattern.__init__: runs of non-'**' elements
RECURSIVE fragments(_, _, _)
fragments(elements, fragment, acc) ==
    IF elements = <<>>
    THEN IF fragment # <<>> THEN Append(acc, fragment) ELSE acc
    ELSE IF Head(elements) = STARSTAR
         THEN fragments(Tail(elements), <<>>,
                        IF fragment # <<>> THEN Append(acc, fragment) ELSE acc)
         ELSE fragments(Tail(elements), Append(fragment, Head(elements)), acc)

\* Pattern.__init__; id stands for the object's identity
Pattern_init(elements, casesensitive, id) ==
    LET bound_start == elements[1] # STARSTAR
        has_file == elements[Len(elements)] # STARSTAR
        file_pattern == IF has_file THEN elements[Len(elements)] ELSE STAR
        dirs == IF has_file THEN SubSeq(elements, 1, Len(elements) - 1) ELSE elements
        bound_end == IF dirs # <<>> THEN dirs[Len(dirs)] # STARSTAR ELSE bound_start
        frags == fragments(dirs, <<>>, <<>>)
        n == Len(frags)
    IN  [id |-> id,
         bound_start |-> bound_start,
         bound_end |-> bound_end,
         sections |->
            [i \in 1..n |->
                [Section_init(frags[i], casesensitive) EXCEPT
                    !.bound_start = (bound_start /\ i = 1),
                    !.bound_end = (bound_end /\ i = n)]],
         file_pattern |-> file_pattern,
         casesensitive |-> casesensitive]

\* the element list Pattern.create hands to the Pattern constructor:
\* Pattern._simplify(glob.replace('\\', '/').replace('//', '/').split('/'))
normalised(g) == simplify(split(replace_double_sep(replace_backslash(g))))

\* Pattern.create: a Pattern, or a PatternSet of two when the elements end in '**'
create(g, casesensitive, id) ==
    LET s == normalised(g)
        elements == s.elements
    IN  IF s.err # "none" THEN [err |-> s.err, is_set |-> FALSE, patterns |-> <<>>]
        ELSE IF Len(elements) > 1 /\ elements[Len(elements)] = STARSTAR
        THEN [err |-> "none", is_set |-> TRUE,
              patterns |-> <<Pattern_init(elements, casesensitive, id),
                             Pattern_init(SubSeq(elements, 1, Len(elements) - 1),
                                          casesensitive, id + 1)>>]
        ELSE [err |-> "none", is_set |-> FALSE,
              patterns |-> <<Pattern_init(elements, casesensitive, id)>>]

\* Pattern._to_string
to_string(p) ==
    LET n == Len(p.sections)
        start == IF n > 0 THEN (IF p.bound_start THEN <<SEP>> ELSE STARSTAR \o <<SEP>>)
                 ELSE <<>>
        sections == join(<<SEP>> \o STARSTAR \o <<SEP>>,
                         [i \in 1..n |-> Section_str(p.sections[i])])
        end == IF n > 0 THEN (IF p.bound_end THEN <<>> ELSE <<SEP>> \o STARSTAR)
               ELSE (IF p.bound_end THEN <<>> ELSE STARSTAR)
    IN  start \o sections \o end \o <<SEP>> \o p.file_pattern

\* the fields the tests compare: bound_start, bound_end, sections, file_pattern
fields(p) ==
    [bound_start |-> p.bound_start,
     bound_end |-> p.bound_end,
     sections |-> [i \in 1..Len(p.sections) |-> Section_str(p.sections[i])],
     file_pattern |-> p.file_pattern]

-----------------------------------------------------------------------------
(* MatchType *)

BIT_MATCH == 1
BIT_ALL_SUBDIRECTORIES == 2
BIT_NO_SUBDIRECTORIES == 4

NO_MATCH == 0
MATCH == 1
MATCH_ALL_SUBDIRECTORIES == 3
MATCH_BUT_NO_SUBDIRECTORIES == 5
NO_MATCH_NO_SUBDIRECTORIES == 4

\* a & bit, for a single bit
has_bit(a, bit) == (a \div bit) % 2 = 1

\* a | bit, for a single bit
or_bit(a, bit) == IF has_bit(a, bit) THEN a ELSE a + bit

-----------------------------------------------------------------------------
(* Section.match_iter: the indices just after each match, in order.         *)
(* Indices are Python's: index i is path_elements[i + 1] here.              *)

\* a faulty _match_iter_generic: a section bound to the end is searched from
\* start_at like any other
match_iter_generic_from_start(section, path_elements, start_at) ==
    LET length == Len(path_elements)
        slen == Len(section.elements)
        end == IF section.bound_start THEN 1 ELSE length - slen + 1
        start == start_at
        range == [k \in 1..(end - start) |-> start + k - 1]
        matched(index) ==
            \A j \in 1..slen : Matcher_match(section.elements[j], path_elements[index + j])
        hits == SelectSeq(range, matched)
    IN  IF start > end \/ end > length - slen + 1 THEN <<>>
        ELSE [k \in 1..Len(hits) |-> hits[k] + slen]

\* Section._match_iter_generic
match_iter_generic(section, path_elements, start_at) ==
    LET length == Len(path_elements)
        slen == Len(section.elements)
        end == IF section.bound_start THEN 1 ELSE length - slen + 1
        start == IF section.bound_end THEN length - slen ELSE start_at
        range == [k \in 1..(end - start) |-> start + k - 1]
        matched(index) ==
            \A j \in 1..slen : Matcher_match(section.elements[j], path_elements[index + j])
        hits == SelectSeq(range, matched)
    IN  IF start > end \/ start < start_at \/ end > length - slen + 1 THEN <<>>
        ELSE [k \in 1..Len(hits) |-> hits[k] + slen]

\* a faulty _match_iter_single: the candidates come latest first
match_iter_single_latest_first(section, path_elements, start_at) ==
    LET length == Len(path_elements)
        start == IF section.bound_end THEN length - 1 ELSE start_at
        end == IF section.bound_start THEN 1 ELSE length
        range == [k \in 1..(end - start) |-> end - k]
        matched(index) == Matcher_match(section.elements[1], path_elements[index + 1])
        hits == SelectSeq(range, matched)
    IN  IF length = 0 THEN <<>>
        ELSE IF section.bound_end /\ start < start_at THEN <<>>
        ELSE IF ~section.bound_start /\ start > end THEN <<>>
        ELSE [k \in 1..Len(hits) |-> hits[k] + 1]

\* Section._match_iter_single
match_iter_single(section, path_elements, start_at) ==
    LET length == Len(path_elements)
        start == IF section.bound_end THEN length - 1 ELSE start_at
        end == IF section.bound_start THEN 1 ELSE length
        range == [k \in 1..(end - start) |-> start + k - 1]
        matched(index) == Matcher_match(section.elements[1], path_elements[index + 1])
        hits == SelectSeq(range, matched)
    IN  IF length = 0 THEN <<>>
        ELSE IF section.bound_end /\ start < start_at THEN <<>>
        ELSE IF ~section.bound_start /\ start > end THEN <<>>
        ELSE [k \in 1..Len(hits) |-> hits[k] + 1]

\* Section.match_iter
match_iter(section, path_elements, start_at) ==
    IF Len(section.elements) = 1
    THEN match_iter_single(section, path_elements, start_at)
    ELSE match_iter_generic(section, path_elements, start_at)

-----------------------------------------------------------------------------
(* Pattern.match_directory *)

\* the test that ends the loop of match_recurse: "if match | MatchType.MATCH"
loop_returns(match) == or_bit(match, MATCH) # 0

\* a faulty no_match_found: a bound first section that found no end rules the
\* subdirectories out without looking at the path's length or last element
no_match_found_eager(p, is_start, section, path_elements, any_match) ==
    IF is_start /\ p.bound_start /\ ~any_match
    THEN NO_MATCH_NO_SUBDIRECTORIES
    ELSE NO_MATCH

\* match_recurse after its loop found nothing to return
no_match_found(p, is_start, section, path_elements, any_match) ==
    IF is_start /\ p.bound_start /\ ~any_match
    THEN IF Len(path_elements) >= Len(section.elements)
         THEN NO_MATCH_NO_SUBDIRECTORIES
         ELSE IF /\ Len(section.elements) > Len(path_elements)
                 /\ Len(path_elements) > 0
                 /\ ~Matcher_match(section.elements[Len(path_elements)],
                                   path_elements[Len(path_elements)])
              THEN NO_MATCH_NO_SUBDIRECTORIES
              ELSE NO_MATCH
    ELSE NO_MATCH

\* a faulty match_found: a pattern bound to the end of the path is taken to
\* match all subdirectories
match_found_unbound(p) ==
    IF Len(p.sections) = 1 /\ p.bound_start /\ p.bound_end
    THEN MATCH_BUT_NO_SUBDIRECTORIES
    ELSE MATCH_ALL_SUBDIRECTORIES

\* match_recurse when no section is left: the match is found
match_found(p) ==
    IF Len(p.sections) = 1 /\ p.bound_start /\ p.bound_end
    THEN MATCH_BUT_NO_SUBDIRECTORIES
    ELSE IF p.bound_end THEN MATCH
         ELSE MATCH_ALL_SUBDIRECTORIES

RECURSIVE match_recurse(_, _, _, _, _), match_loop(_, _, _, _, _)
\* the "for end in section.match_iter(...)" loop over the remaining ends
match_loop(p, is_start, sections, path_elements, ends) ==
    IF ends = <<>>
    THEN \* at least one end was tried: any_match is True
         no_match_found(p, is_start, sections[1], path_elements, TRUE)
    ELSE LET match == match_recurse(p, FALSE, Tail(sections), path_elements, Head(ends))
         IN  IF loop_returns(match) THEN match
             ELSE match_loop(p, is_start, sections, path_elements, Tail(ends))

match_recurse(p, is_start, sections, path_elements, location) ==
    IF sections # <<>>
    THEN LET ends == match_iter(sections[1], path_elements, location)
         IN  IF ends = <<>>
             THEN no_match_found(p, is_start, sections[1], path_elements, FALSE)
             ELSE match_loop(p, is_start, sections, path_elements, ends)
    ELSE match_found(p)

\* a faulty match_directory: a bound pattern without sections is taken to
\* match the start directory wherever the walk stands
match_directory_root_everywhere(p, path_elements) ==
    IF p.sections # <<>>
    THEN match_recurse(p, TRUE, p.sections, path_elements, 0)
    ELSE IF p.bound_start
         THEN MATCH_BUT_NO_SUBDIRECTORIES
         ELSE MATCH_ALL_SUBDIRECTORIES

\* Pattern.match_directory
match_directory(p, path_elements) ==
    IF p.sections # <<>>
    THEN match_recurse(p, TRUE, p.sections, path_elements, 0)
    ELSE IF p.bound_start
         THEN IF Len(path_elements) = 0
              THEN MATCH_BUT_NO_SUBDIRECTORIES
              ELSE NO_MATCH_NO_SUBDIRECTORIES
         ELSE MATCH_ALL_SUBDIRECTORIES

\* Pattern.file_filter, for one file name
file_accepts(p, f) ==
    IF p.file_pattern = STAR THEN TRUE
    ELSE IF Contains(p.file_pattern, "*") \/ Contains(p.file_pattern, "?")
         THEN IF p.casesensitive
              THEN fnmatchcase(f, p.file_pattern)
              ELSE fnmatchcase(lower(f), lower(p.file_pattern))
         ELSE IF p.casesensitive
              THEN f = p.file_pattern
              ELSE lower(f) = lower(p.file_pattern)

\* Pattern.all_files
Pattern_all_files(p) == p.file_pattern = STAR

NoPattern == <<>>
NoMatchYet == "pending"
NoConfig == <<>>

-----------------------------------------------------------------------------
(* PatternSet: the list of patterns and the _all_files cache, which is      *)
(* "True", "False" or "None" (to be recomputed)                             *)

bool_str(b) == IF b THEN "True" ELSE "False"

PatternSet_new == [patterns |-> <<>>, all_files |-> "False"]

\* PatternSet defines neither __bool__ nor __len__: an instance is always true
PatternSet_bool(ps) == TRUE

\* PatternSet._compute_all_files
compute_all_files(ps) ==
    \E i \in 1..Len(ps.patterns) : Pattern_all_files(ps.patterns[i])

\* PatternSet.all_files: the value returned
PatternSet_all_files(ps) ==
    IF ps.all_files = "None" THEN compute_all_files(ps) ELSE ps.all_files = "True"

\* PatternSet.all_files: the set afterwards, its cache filled
PatternSet_cached(ps) ==
    IF ps.all_files = "None"
    THEN [ps EXCEPT !.all_files = bool_str(compute_all_files(ps))]
    ELSE ps

PatternSet_append(ps, p) ==
    [patterns |-> Append(ps.patterns, p),
     all_files |-> IF ps.all_files # "None"
                   THEN bool_str(ps.all_files = "True" \/ Pattern_all_files(p))
                   ELSE "None"]

\* PatternSet.extend with a PatternSet's patterns or a list
PatternSet_extend(ps, patterns) ==
    [patterns |-> ps.patterns \o patterns, all_files |-> "None"]

\* list.remove: the first element that is the object p
remove_first(list, p) ==
    IF \E i \in 1..Len(list) : list[i] = p
    THEN LET at == CHOOSE i \in 1..Len(list) :
                       list[i] = p /\ \A j \in 1..(i - 1) : list[j] # p
         IN  SubSeq(list, 1, at - 1) \o SubSeq(list, at + 1, Len(list))
    ELSE list

\* a faulty PatternSet.remove: the cache is left as it is
PatternSet_remove_cache_kept(ps, p) ==
    [patterns |-> remove_first(ps.patterns, p), all_files |-> ps.all_files]

\* PatternSet.remove
PatternSet_remove(ps, p) ==
    [patterns |-> remove_first(ps.patterns, p), all_files |-> "None"]

PatternSet_empty(ps) == Len(ps.patterns) = 0

\* PatternSet.iter, when the generator first runs: "patterns = list(self.patterns)"
iter_start(ps) == ps.patterns

\* a faulty step of PatternSet.iter: the loop runs over self.patterns itself
iter_step_live(ps, snapshot, pos) ==
    IF pos < Len(ps.patterns) THEN <<ps.patterns[pos + 1]>> ELSE <<>>

\* PatternSet.iter, one step of "for pattern in patterns: yield pattern" after
\* pos patterns were yielded: <<the pattern>>, or <<>> when the generator ends
iter_step(ps, snapshot, pos) ==
    IF pos < Len(snapshot) THEN <<snapshot[pos + 1]>> ELSE <<>>

-----------------------------------------------------------------------------
(* FileSetState.  parent is <<>> for None and <<state>> otherwise.          *)

Min(a, b) == IF a < b THEN a ELSE b

\* list[0:n]
Prefix(s, n) == SubSeq(s, 1, Min(n, Len(s)))

\* a faulty _find_parent: the state of the directory yielded before is taken
\* for the parent
find_parent_previous(state, path_elements) == state

RECURSIVE find_parent(_, _)
find_parent(state, path_elements) ==
    IF state.path_elements = <<>> THEN state
    ELSE IF state.path_elements = Prefix(path_elements, Len(state.path_elements))
         THEN state
         ELSE find_parent(state.parent[1], path_elements)

\* a faulty pass of the loop of FileSetState.__init__: a pattern that matches
\* neither this directory nor any below stays in unmatched
classify_one_dead_kept(match) ==
    IF has_bit(match, BIT_MATCH)
    THEN IF has_bit(match, BIT_ALL_SUBDIRECTORIES)
         THEN [list |-> "matched_inherit", removed |-> TRUE]
         ELSE IF has_bit(match, BIT_NO_SUBDIRECTORIES)
         THEN [list |-> "matched_no_subdir", removed |-> TRUE]
         ELSE [list |-> "matched_and_subdir", removed |-> TRUE]
    ELSE [list |-> "none", removed |-> FALSE]

\* the branch one pass of the loop of FileSetState.__init__ takes on the match
\* of its pattern: the list the pattern is appended to, and whether it leaves
\* unmatched
classify_one(match) ==
    IF has_bit(match, BIT_MATCH)
    THEN IF has_bit(match, BIT_ALL_SUBDIRECTORIES)
         THEN [list |-> "matched_inherit", removed |-> TRUE]
         ELSE IF has_bit(match, BIT_NO_SUBDIRECTORIES)
         THEN [list |-> "matched_no_subdir", removed |-> TRUE]
         ELSE [list |-> "matched_and_subdir", removed |-> TRUE]
    ELSE IF has_bit(match, BIT_NO_SUBDIRECTORIES)
         THEN [list |-> "none", removed |-> TRUE]
         ELSE [list |-> "none", removed |-> FALSE]

\* PatternSet.append of each pattern of a list, in order
append_each(ps, patterns) ==
    [patterns |-> ps.patterns \o patterns,
     all_files |-> IF ps.all_files # "None"
                   THEN bool_str(\/ ps.all_files = "True"
                                 \/ \E i \in 1..Len(patterns) : Pattern_all_files(patterns[i]))
                   ELSE "None"]

\* PatternSet.remove of each pattern of a list
remove_each(ps, patterns) ==
    IF patterns = <<>> THEN ps
    ELSE [patterns |-> SelectSeq(ps.patterns,
                                 LAMBDA p : ~\E i \in 1..Len(patterns) : patterns[i] = p),
          all_files |-> "None"]

\* the patterns of snapshot in the order of the passes that picked them
picked(snapshot, at) == [k \in 1..Len(at) |-> snapshot[at[k]]]

\* the patterns whose pass appended them to the given list
moved(snapshot, branches, list) ==
    picked(snapshot, SelectSeq([i \in 1..Len(snapshot) |-> i],
                               LAMBDA i : branches[i].list = list))

\* the patterns whose pass removed them from unmatched
removed(snapshot, branches) ==
    picked(snapshot, SelectSeq([i \in 1..Len(snapshot) |-> i],
                               LAMBDA i : branches[i].removed))

\* the buckets after every pass took its branch
classify_all(state, snapshot, branches) ==
    [state EXCEPT
        !.matched_inherit = append_each(@, moved(snapshot, branches, "matched_inherit")),
        !.matched_and_subdir = append_each(@, moved(snapshot, branches, "matched_and_subdir")),
        !.matched_no_subdir = append_each(@, moved(snapshot, branches, "matched_no_subdir")),
        !.unmatched = remove_each(@, removed(snapshot, branches))]

\* the loop of FileSetState.__init__ over the snapshot of unmatched; a pass
\* reads only its pattern and path_elements, and the patterns of unmatched are
\* distinct objects
classify(state, snapshot) ==
    classify_all(state, snapshot,
                 [i \in 1..Len(snapshot) |->
                     classify_one(match_directory(snapshot[i], state.path_elements))])

\* a faulty FileSetState.__init__: parent_has_patterns looks at the parent's
\* matched_inherit only, not at the parent's own flag
FileSetState_init_flag_one_level(directory, based_on, seed) ==
    LET path_elements == IF directory # <<>> THEN split(directory) ELSE <<>>
        parent == IF based_on # <<>>
                  THEN <<find_parent(based_on[1], path_elements)>>
                  ELSE <<>>
        unmatched ==
            IF parent # <<>>
            THEN PatternSet_extend(
                     PatternSet_extend(PatternSet_new,
                                       parent[1].matched_and_subdir.patterns),
                     parent[1].unmatched.patterns)
            ELSE IF seed # <<>> /\ PatternSet_bool(seed[1])
                 THEN PatternSet_extend(PatternSet_new, seed[1].patterns)
                 ELSE PatternSet_new
        start == [path_elements |-> path_elements,
                  parent |-> parent,
                  matched_inherit |-> PatternSet_new,
                  matched_and_subdir |-> PatternSet_new,
                  matched_no_subdir |-> PatternSet_new,
                  unmatched |-> unmatched,
                  parent_has_patterns |->
                      IF parent # <<>>
                      THEN ~PatternSet_empty(parent[1].matched_inherit)
                      ELSE FALSE]
    IN  classify(start, unmatched.patterns)

\* FileSetState.__init__(label, directory, based_on, unmatched)
FileSetState_init(directory, based_on, seed) ==
    LET path_elements == IF directory # <<>> THEN split(directory) ELSE <<>>
        parent == IF based_on # <<>>
                  THEN <<find_parent(based_on[1], path_elements)>>
                  ELSE <<>>
        unmatched ==
            IF parent # <<>>
            THEN PatternSet_extend(
                     PatternSet_extend(PatternSet_new,
                                       parent[1].matched_and_subdir.patterns),
                     parent[1].unmatched.patterns)
            ELSE IF seed # <<>> /\ PatternSet_bool(seed[1])
                 THEN PatternSet_extend(PatternSet_new, seed[1].patterns)
                 ELSE PatternSet_new
        start == [path_elements |-> path_elements,
                  parent |-> parent,
                  matched_inherit |-> PatternSet_new,
                  matched_and_subdir |-> PatternSet_new,
                  matched_no_subdir |-> PatternSet_new,
                  unmatched |-> unmatched,
                  parent_has_patterns |->
                      IF parent # <<>>
                      THEN parent[1].parent_has_patterns
                           \/ ~PatternSet_empty(parent[1].matched_inherit)
                      ELSE FALSE]
    IN  classify(start, unmatched.patterns)

\* a faulty walk up the chain: only the state's own matched_inherit is taken
inherit_chain_own(ref) == ref.matched_inherit.patterns

\* the matched_inherit patterns of ref and of its ancestors, as far as
\* parent_has_patterns leads
RECURSIVE inherit_chain(_)
inherit_chain(ref) ==
    ref.matched_inherit.patterns
    \o (IF ref.parent_has_patterns THEN inherit_chain(ref.parent[1]) ELSE <<>>)

\* a faulty _matching_pattern_sets: the inherited sets are left out
matching_pattern_sets_own(state) ==
    state.matched_and_subdir.patterns \o state.matched_no_subdir.patterns

\* FileSetState._matching_pattern_sets: the chained iterators, flattened
matching_pattern_sets(state) ==
    state.matched_and_subdir.patterns
    \o state.matched_no_subdir.patterns
    \o inherit_chain(state)

\* the loop of FileSetState.match, each pass a Pattern.match_files moving the
\* files its pattern accepts from unmatched to matched; the break leaves out
\* only passes with nothing left in unmatched
match_files_loop(patterns, matched, unmatched) ==
    matched \cup {f \in unmatched :
                     \E i \in 1..Len(patterns) : file_accepts(patterns[i], f)}

\* a faulty FileSetState.match: only the state's own bags are applied, not
\* the matched_inherit bags up the chain
FileSetState_match_local(state, files) ==
    IF files = {} THEN {}
    ELSE IF \/ PatternSet_all_files(state.matched_inherit)
            \/ PatternSet_all_files(state.matched_and_subdir)
            \/ PatternSet_all_files(state.matched_no_subdir)
         THEN files
         ELSE match_files_loop(state.matched_and_subdir.patterns
                                 \o state.matched_no_subdir.patterns
                                 \o state.matched_inherit.patterns, {}, files)

\* FileSetState.match: the files returned
FileSetState_match(state, files) ==
    IF files = {} THEN {}
    ELSE IF \/ PatternSet_all_files(state.matched_inherit)
            \/ PatternSet_all_files(state.matched_and_subdir)
            \/ PatternSet_all_files(state.matched_no_subdir)
         THEN files
         ELSE match_files_loop(matching_pattern_sets(state), {}, files)

\* FileSetState.match: the state afterwards, the caches it read filled
FileSetState_after_match(state, files) ==
    IF files = {} THEN state
    ELSE LET s1 == [state EXCEPT !.matched_inherit = PatternSet_cached(@)]
         IN  IF PatternSet_all_files(state.matched_inherit) THEN s1
             ELSE LET s2 == [s1 EXCEPT !.matched_and_subdir = PatternSet_cached(@)]
                  IN  IF PatternSet_all_files(state.matched_and_subdir) THEN s2
                      ELSE [s2 EXCEPT !.matched_no_subdir = PatternSet_cached(@)]

matches_all_files_all_subdirs(state) ==
    \E i \in 1..Len(state.matched_inherit.patterns) :
        Pattern_all_files(state.matched_inherit.patterns[i])

\* a faulty no_possible_matches_in_subdirs: the patterns still unmatched are
\* not looked at
no_possible_matches_unmatched_ignored(state) ==
    /\ ~state.parent_has_patterns
    /\ PatternSet_empty(state.matched_inherit)
    /\ PatternSet_empty(state.matched_and_subdir)

no_possible_matches_in_subdirs(state) ==
    /\ ~state.parent_has_patterns
    /\ PatternSet_empty(state.matched_inherit)
    /\ PatternSet_empty(state.matched_and_subdir)
    /\ PatternSet_empty(state.unmatched)

-----------------------------------------------------------------------------
(* FileSet *)

DefaultExcludeGlobs ==
    <<
       <<"*", "*", "/", "_", "_", "p", "y", "c", "a", "c", "h", "e", "_", "_", "/", "*", "*", "/", "*">>,
       <<"*", "*", "/", "*", "~">>,
       <<"*", "*", "/", "#", "*", "#">>,
       <<"*", "*", "/", ".", "#", "*">>,
       <<"*", "*", "/", "%", "*", "%">>,
       <<"*", "*", "/", ".", "_", "*">>,
       <<"*", "*", "/", "C", "V", "S">>,
       <<"*", "*", "/", "C", "V", "S", "/", "*", "*", "/", "*">>,
       <<"*", "*", "/", ".", "c", "v", "s", "i", "g", "n", "o", "r", "e">>,
       <<"*", "*", "/", "S", "C", "C", "S">>,
       <<"*", "*", "/", "S", "C", "C", "S", "/", "*", "*", "/", "*">>,
       <<"*", "*", "/", "v", "s", "s", "v", "e", "r", ".", "s", "c", "c">>,
       <<"*", "*", "/", ".", "s", "v", "n">>,
       <<"*", "*", "/", ".", "s", "v", "n", "/", "*", "*", "/", "*">>,
       <<"*", "*", "/", ".", "D", "S", "_", "S", "t", "o", "r", "e">>,
       <<"*", "*", "/", ".", "g", "i", "t">>,
       <<"*", "*", "/", ".", "g", "i", "t", "/", "*", "*", "/", "*">>,
       <<"*", "*", "/", ".", "g", "i", "t", "a", "t", "t", "r", "i", "b", "u", "t", "e", "s">>,
       <<"*", "*", "/", ".", "g", "i", "t", "i", "g", "n", "o", "r", "e">>,
       <<"*", "*", "/", ".", "g", "i", "t", "m", "o", "d", "u", "l", "e", "s">>,
       <<"*", "*", "/", ".", "h", "g">>,
       <<"*", "*", "/", ".", "h", "g", "/", "*", "*", "/", "*">>,
       <<"*", "*", "/", ".", "h", "g", "i", "g", "n", "o", "r", "e">>,
       <<"*", "*", "/", ".", "h", "g", "s", "u", "b">>,
       <<"*", "*", "/", ".", "h", "g", "s", "u", "b", "s", "t", "a", "t", "e">>,
       <<"*", "*", "/", ".", "h", "g", "t", "a", "g", "s">>,
       <<"*", "*", "/", ".", "b", "z", "r">>,
       <<"*", "*", "/", ".", "b", "z", "r", "/", "*", "*", "/", "*">>,
       <<"*", "*", "/", ".", "b", "z", "r", "i", "g", "n", "o", "r", "e">>
    >>

\* get_initial_default_excludes: Pattern.create(exclude), case sensitive
DEFAULT_EXCLUDES ==
    [i \in 1..Len(DefaultExcludeGlobs) |->
        create(DefaultExcludeGlobs[i], TRUE, 100 + i).patterns[1]]

\* FileSet._preprocess over a list of glob strings; ids from base on
RECURSIVE preprocess_loop(_, _, _, _)
preprocess_loop(globs, casesensitive, id, pattern_set) ==
    IF globs = <<>> THEN [err |-> "none", set |-> pattern_set]
    ELSE LET patterns == create(Head(globs), casesensitive, id)
         IN  IF patterns.err # "none" THEN [err |-> patterns.err, set |-> PatternSet_new]
             ELSE preprocess_loop(
                      Tail(globs), casesensitive, id + 2,
                      IF patterns.is_set
                      THEN PatternSet_extend(pattern_set, patterns.patterns)
                      ELSE PatternSet_append(pattern_set, patterns.patterns[1]))

preprocess(argument, casesensitive, id) ==
    preprocess_loop(argument, casesensitive, id, PatternSet_new)

NoFileSet == [err |-> "pending", include |-> PatternSet_new, exclude |-> PatternSet_new,
              received |-> 0]

\* a faulty FileSet.__init__: default_excludes is not acted upon
FileSet_checked_no_defaults(c, inc_set, exc_set) ==
    IF inc_set.err # "none" THEN [NoFileSet EXCEPT !.err = inc_set.err]
    ELSE IF ~PatternSet_bool(inc_set.set) THEN [NoFileSet EXCEPT !.err = "FormicError"]
    ELSE IF exc_set.err # "none" THEN [NoFileSet EXCEPT !.err = exc_set.err]
    ELSE [err |-> "none", include |-> inc_set.set, exclude |-> exc_set.set,
          received |-> 0]

\* FileSet.__init__ after the two calls of _preprocess
FileSet_checked(c, inc_set, exc_set) ==
    IF inc_set.err # "none" THEN [NoFileSet EXCEPT !.err = inc_set.err]
    ELSE IF ~PatternSet_bool(inc_set.set) THEN [NoFileSet EXCEPT !.err = "FormicError"]
    ELSE IF exc_set.err # "none" THEN [NoFileSet EXCEPT !.err = exc_set.err]
    ELSE [err |-> "none",
          include |-> inc_set.set,
          exclude |-> IF c.default_excludes
                      THEN PatternSet_extend(exc_set.set, DEFAULT_EXCLUDES)
                      ELSE exc_set.set,
          received |-> 0]

\* FileSet.__init__; include and exclude are lists of glob strings ([] also
\* stands for None)
FileSet_init(c) ==
    FileSet_checked(c, preprocess(c.include, c.casesensitive, 1),
                       preprocess(c.exclude, c.casesensitive, 51))

\* a faulty _receive: a directory whose subdirectories are cut off is not
\* matched itself
receive_matched_cut_skips(inc, exc, fileset, included) ==
    IF no_possible_matches_in_subdirs(inc)
    THEN [matched |-> {}, include |-> inc, exclude |-> exc, emptied |-> TRUE]
    ELSE [matched |-> included \ FileSetState_match(exc, included),
          include |-> FileSetState_after_match(inc, fileset),
          exclude |-> FileSetState_after_match(exc, included),
          emptied |-> FALSE]

\* FileSet._receive from "files = set(files)" on, when the exclude state does
\* not match everything: included is include.match(files)
receive_matched(inc, exc, fileset, included) ==
    [matched |-> included \ FileSetState_match(exc, included),
     include |-> FileSetState_after_match(inc, fileset),
     exclude |-> FileSetState_after_match(exc, included),
     emptied |-> no_possible_matches_in_subdirs(inc)]

\* FileSet._receive once the two states of the directory are built
receive_states(inc, exc, fileset) ==
    IF matches_all_files_all_subdirs(exc)
    THEN [matched |-> {}, include |-> inc, exclude |-> exc, emptied |-> TRUE]
    ELSE receive_matched(inc, exc, fileset, FileSetState_match(inc, fileset))

\* FileSet._receive with symlinks = True: the files matched, the two new states
\* and whether dirs was emptied
receive(fileset, directory, files, inc_prev, exc_prev) ==
    receive_states(
        FileSetState_init(directory, inc_prev,
                          IF inc_prev # <<>> THEN <<>> ELSE <<fileset.include>>),
        FileSetState_init(directory, exc_prev,
                          IF exc_prev # <<>> THEN <<>> ELSE <<fileset.exclude>>),
        {files[i] : i \in 1..Len(files)})

-----------------------------------------------------------------------------
(* The walkers over a tree given as a list of file paths                    *)

\* the components of a file path: "a/b/x" is directory a/b, file x
\* (TreeWalk.list_to_tree splits at one '/' after the other)
components(file) == split(file)
dir_of(file) == SubSeq(components(file), 1, Len(components(file)) - 1)
name_of(file) == components(file)[Len(components(file))]

\* tree[FILE_MARKER] of the node at dir: its file names in list order
files_of(filelist, dir) ==
    LET here == SelectSeq(filelist, LAMBDA f : dir_of(f) = dir)
    IN  [i \in 1..Len(here) |-> name_of(here[i])]

\* the child nodes of the node at dir, in order of creation
RECURSIVE subdirs_loop(_, _, _)
subdirs_loop(filelist, dir, acc) ==
    IF filelist = <<>> THEN acc
    ELSE LET d == dir_of(Head(filelist))
             under == Len(d) > Len(dir) /\ SubSeq(d, 1, Len(dir)) = dir
             child == d[Len(dir) + 1]
         IN  IF under /\ ~\E i \in 1..Len(acc) : acc[i] = child
             THEN subdirs_loop(Tail(filelist), dir, Append(acc, child))
             ELSE subdirs_loop(Tail(filelist), dir, acc)

subdirs_of(filelist, dir) == subdirs_loop(filelist, dir, <<>>)

\* TreeWalk.tree_walk: the directories in depth-first pre-order
RECURSIVE tree_walk(_, _), tree_walk_each(_, _, _)
tree_walk_each(filelist, dir, dirs) ==
    IF dirs = <<>> THEN <<>>
    ELSE tree_walk(filelist, Append(dir, Head(dirs)))
         \o tree_walk_each(filelist, dir, Tail(dirs))

tree_walk(filelist, dir) ==
    <<dir>> \o tree_walk_each(filelist, dir, subdirs_of(filelist, dir))

\* the directory FileSet.get_directory returns
StartDir == <<"/", "r">>

\* os.path.join(directory, d1, d2, ...): the root string the walker yields
root_of(dir) == IF dir = <<>> THEN StartDir ELSE StartDir \o <<SEP>> \o join(<<SEP>>, dir)

\* root[prefix:] in FileSet.files
rel_dir_name(root) ==
    LET prefix == Len(StartDir) + 1
    IN  IF prefix >= Len(root) THEN <<>> ELSE SubSeq(root, prefix + 1, Len(root))

-----------------------------------------------------------------------------
(* The compiler on bounded globs *)

GlobChars == {"/", "*", ".", "a"}

Globs == SeqsUpTo(GlobChars, MaxGlobLen)

NoResult == [err |-> "pending", is_set |-> FALSE, patterns |-> <<>>]

IdleCompile ==
    /\ glob = <<>>
    /\ compiled = NoResult
    /\ rendered = <<>>
    /\ recompiled = <<>>
    /\ floating = <<>>

IdleFileSet ==
    /\ cfg = NoConfig
    /\ listing = <<>>
    /\ fset = NoFileSet
    /\ wq = <<>>
    /\ inc_state = <<>>
    /\ exc_state = <<>>
    /\ visited = <<>>
    /\ pruned = {}
    /\ emitted = <<>>
    /\ hashseed = <<>>
    /\ run = 1
    /\ first_emitted = <<>>

IdleWild ==
    /\ wtoken = <<>>
    /\ wname = <<>>
    /\ wcase = TRUE
    /\ token_ok = NoMatchYet
    /\ file_ok = NoMatchYet

NoArgs == [include |-> <<>>, exclude |-> <<>>, default_excludes |-> TRUE,
           relative |-> FALSE, insensitive |-> FALSE, info |-> "none"]

IdleMain ==
    /\ argv = NoArgs
    /\ interp = 3
    /\ printed = <<>>
    /\ stdout = <<>>
    /\ returned = <<>>
    /\ raised = "none"

NoEnds == <<-1>>

IdleIter ==
    /\ isection = <<>>
    /\ ipath = <<>>
    /\ istart = 0
    /\ iends = NoEnds
    /\ igeneric = NoEnds

IdleSet ==
    /\ pset = PatternSet_new
    /\ pset_answer = "pending"
    /\ pset_raised = "none"

IdleGen ==
    /\ gen_state = "none"
    /\ gen_snapshot = <<>>
    /\ pset_begun = <<>>
    /\ pset_yielded = <<>>

IdleChain ==
    /\ chain_seeds = PatternSet_new
    /\ chain_state = <<>>
    /\ chain_walked = {}
    /\ chain_files = {}
    /\ chain_answer = <<>>

IdleExtra == IdleWild /\ IdleMain /\ IdleIter /\ IdleSet /\ IdleGen /\ IdleChain
IdleButWild == IdleMain /\ IdleIter /\ IdleSet /\ IdleGen /\ IdleChain
IdleButMain == IdleWild /\ IdleIter /\ IdleSet /\ IdleGen /\ IdleChain
IdleButIter == IdleWild /\ IdleMain /\ IdleSet /\ IdleGen /\ IdleChain
IdleButSet == IdleWild /\ IdleMain /\ IdleIter /\ IdleGen /\ IdleChain
IdleButGen == IdleWild /\ IdleMain /\ IdleIter /\ IdleChain
IdleButChain == IdleWild /\ IdleMain /\ IdleIter /\ IdleSet /\ IdleGen

IdleMatch ==
    /\ pat = NoPattern
    /\ path = <<>>
    /\ ext = <<>>
    /\ mres = NoMatchYet
    /\ mext = NoMatchYet

InitCompile ==
    /\ pc = "glob"
    /\ glob \in Globs
    /\ compiled = NoResult
    /\ rendered = <<>>
    /\ recompiled = <<>>
    /\ floating = <<>>
    /\ IdleMatch
    /\ IdleFileSet
    /\ IdleExtra

\* Pattern.create(glob)
Compile ==
    /\ pc = "glob"
    /\ compiled' = create(glob, TRUE, 1)
    /\ pc' = "compiled"
    /\ UNCHANGED <<glob, rendered, recompiled, floating, mvars, fvars, xvars>>

\* str(pattern) for each compiled pattern, then Pattern.create of each string
Render ==
    /\ pc = "compiled"
    /\ compiled.err = "none"
    /\ rendered' = [i \in 1..Len(compiled.patterns) |-> to_string(compiled.patterns[i])]
    /\ recompiled' = [i \in 1..Len(compiled.patterns) |->
                        create(to_string(compiled.patterns[i]), TRUE, 1)]
    /\ pc' = "rendered"
    /\ UNCHANGED <<glob, compiled, floating, mvars, fvars, xvars>>

\* Pattern.create of "**/" + glob and of "/**/" + glob
CompileFloating ==
    /\ pc = "compiled"
    /\ floating' = <<create(STARSTAR \o <<SEP>> \o glob, TRUE, 1),
                     create(<<SEP>> \o STARSTAR \o <<SEP>> \o glob, TRUE, 1)>>
    /\ pc' = "floated"
    /\ UNCHANGED <<glob, compiled, rendered, recompiled, mvars, fvars, xvars>>

NextCompile == Compile \/ Render \/ CompileFloating

SpecCompile == InitCompile /\ [][NextCompile]_vars

-----------------------------------------------------------------------------
(* The directory matcher on bounded patterns and paths *)

MatchTokens == {EMPTY, STARSTAR, STAR, <<"a">>, <<"b">>}
MatchNames == {<<"a">>, <<"b">>}

\* the directory part from drawn components, then a file name or a trailing slash
MatchGlobs ==
    {join(<<SEP>>, parts) \o sfx :
        parts \in SeqsUpTo(MatchTokens, MaxGlobParts),
        sfx \in {<<SEP, "x">>, <<SEP>>}}

MatchPatterns ==
    UNION {LET c == create(g, TRUE, 0)
           IN  {[c.patterns[i] EXCEPT !.id = 0] : i \in 1..Len(c.patterns)} :
           g \in MatchGlobs}

InitMatch ==
    /\ pc = "pattern"
    /\ pat \in MatchPatterns
    /\ path = <<>>
    /\ ext = <<>>
    /\ mres = NoMatchYet
    /\ mext = NoMatchYet
    /\ IdleCompile
    /\ IdleFileSet
    /\ IdleExtra

\* pattern.match_directory(path)
MatchDirectory ==
    /\ pc = "pattern"
    /\ \E p \in SeqsUpTo(MatchNames, MaxPathLen) :
          /\ path' = p
          /\ mres' = match_directory(pat, p)
    /\ pc' = "matched"
    /\ UNCHANGED <<pat, ext, mext, cvars, fvars, xvars>>

\* pattern.match_directory(path + ext)
MatchExtension ==
    /\ pc = "matched"
    /\ \E q \in SeqsUpTo(MatchNames, MaxExtLen) :
          /\ ext' = q
          /\ mext' = match_directory(pat, path \o q)
    /\ pc' = "extended"
    /\ UNCHANGED <<pat, path, mres, cvars, fvars, xvars>>

NextMatch == MatchDirectory \/ MatchExtension

SpecMatch == InitMatch /\ [][NextMatch]_vars

-----------------------------------------------------------------------------
(* A FileSet over bounded configurations and trees *)

\* the walker after _receive returned got for dir: os.walk descends into what
\* is left of dirs; the list TreeWalk.walk_from_list returns was built before
\* the first _receive
walk_on(c, files, queue, dir, got) ==
    [rel |-> rel_dir_name(root_of(dir)),
     matched |-> got.matched,
     include |-> <<got.include>>,
     exclude |-> <<got.exclude>>,
     emptied |-> got.emptied,
     queue |-> IF c.walker = "os.walk" /\ ~got.emptied
               THEN [i \in 1..Len(subdirs_of(files, dir)) |->
                        Append(dir, subdirs_of(files, dir)[i])] \o Tail(queue)
               ELSE Tail(queue)]

\* one step of "for root, dirs, files in self.walk_func(...)" in FileSet.files:
\* the walker yields the head of its queue, _receive runs, the walker moves on
walk_step(c, files, f, queue, inc, exc) ==
    walk_on(c, files, queue, Head(queue),
            receive(f, rel_dir_name(root_of(Head(queue))),
                    files_of(files, Head(queue)), inc, exc))

\* what self.walk_func(directory) holds before its first element is taken
walk_start(c, files) ==
    IF c.walker = "os.walk" THEN <<(<<>>)>> ELSE tree_walk(files, <<>>)

\* the loop of FileSet.files() run to the end: the directories received and
\* the (directory, file) pairs yielded, as a set
RECURSIVE files_loop(_, _, _, _, _, _, _, _), files_next(_, _, _, _, _, _)
files_loop(c, files, f, queue, inc, exc, seen, out) ==
    IF queue = <<>> THEN [err |-> "none", visited |-> seen, emitted |-> out]
    ELSE files_next(c, files, f, seen, out, walk_step(c, files, f, queue, inc, exc))

files_next(c, files, f, seen, out, step) ==
    files_loop(c, files, f, step.queue, step.include, step.exclude,
               Append(seen, step.rel),
               out \cup {<<step.rel, name>> : name \in step.matched})

\* FileSet(...).files() on a FileSet already constructed
files_of_set(c, files, f) ==
    IF f.err # "none" THEN [err |-> f.err, visited |-> <<>>, emitted |-> {}]
    ELSE files_loop(c, files, f, walk_start(c, files), <<>>, <<>>, <<>>, {})

\* FileSet(...).files() from the constructor's arguments
Enumerate(c, files) == files_of_set(c, files, FileSet_init(c))

\* the orders in which a set can be iterated
Orderings(S) ==
    {o \in [1..Cardinality(S) -> S] : \A i, j \in 1..Cardinality(S) : i # j => o[i] # o[j]}

\* the file names of a tree
file_names(files) == {name_of(files[i]) : i \in 1..Len(files)}

\* "for file_name in matched": the set in the order this process iterates it,
\* the same each time the same set is built the same way
iteration(S, seed) == SelectSeq(seed, LAMBDA n : n \in S)

\* FileSet(include, exclude, default_excludes, walk, casesensitive)
Construct ==
    /\ pc = "new"
    /\ fset' = FileSet_init(cfg)
    /\ pc' = IF fset'.err = "none" THEN "ready" ELSE "error"
    /\ UNCHANGED <<cfg, listing, wq, inc_state, exc_state, visited, pruned, emitted,
                 hashseed, run, first_emitted, cvars, mvars, xvars>>

\* a faulty start of FileSet.files(): the states of the directory received
\* last are kept from one call to the next
StartWalk_stale_states ==
    /\ pc = "ready"
    /\ wq' = walk_start(cfg, listing)
    /\ visited' = <<>>
    /\ pruned' = {}
    /\ emitted' = <<>>
    /\ pc' = "walking"
    /\ UNCHANGED <<cfg, listing, fset, inc_state, exc_state, hashseed, run,
                   first_emitted, cvars, mvars, xvars>>

\* FileSet.files() up to the call of walk_func
StartWalk ==
    /\ pc = "ready"
    /\ wq' = walk_start(cfg, listing)
    /\ inc_state' = <<>>
    /\ exc_state' = <<>>
    /\ visited' = <<>>
    /\ pruned' = {}
    /\ emitted' = <<>>
    /\ pc' = "walking"
    /\ UNCHANGED <<cfg, listing, fset, hashseed, run, first_emitted, cvars, mvars, xvars>>

\* one pass of the loop of FileSet.files(): _receive, then the matched files
\* yielded in the order the set iterates in this process
Receive ==
    /\ pc = "walking"
    /\ wq # <<>>
    /\ \E step \in {walk_step(cfg, listing, fset, wq, inc_state, exc_state)} :
           /\ wq' = step.queue
           /\ inc_state' = step.include
           /\ exc_state' = step.exclude
           /\ visited' = Append(visited, step.rel)
           /\ pruned' = IF step.emptied THEN pruned \cup {step.rel} ELSE pruned
           /\ fset' = [fset EXCEPT !.received = @ + 1]
           /\ emitted' = emitted \o [i \in 1..Cardinality(step.matched) |->
                                        <<step.rel, iteration(step.matched, hashseed)[i]>>]
    /\ UNCHANGED <<pc, cfg, listing, hashseed, run, first_emitted, cvars, mvars, xvars>>

\* the walker is exhausted
Finish ==
    /\ pc = "walking"
    /\ wq = <<>>
    /\ pc' = "done"
    /\ UNCHANGED <<fvars, cvars, mvars, xvars>>

\* files() is called on the same FileSet once more
Restart ==
    /\ pc = "done"
    /\ run = 1
    /\ run' = 2
    /\ first_emitted' = emitted
    /\ pc' = "ready"
    /\ UNCHANGED <<cfg, listing, fset, wq, inc_state, exc_state, visited, pruned,
                   emitted, hashseed, cvars, mvars, xvars>>

Next == Construct \/ StartWalk \/ Receive \/ Finish

\* the file paths a tree is made of
PathUniverse ==
    << <<"x">>,
       <<"a", "/", "x">>,
       <<"a", "/", "b", "/", "x">>,
       <<"a", "/", "b", "/", "a">>,
       <<"b", "/", "a", "/", "x">>,
       <<"a", "/", "X">>,
       <<"C", "V", "S", "/", "a", "/", "x">>,
       <<"c", "v", "s", "/", "x">> >>

\* the lists of at most n paths of u, in the order of u
TreeLists(u, n) ==
    {[i \in 1..Len(o) |-> u[o[i]]] :
        o \in {q \in SeqsUpTo(1..Len(u), n) : \A i \in 1..(Len(q) - 1) : q[i] < q[i + 1]}}

IncludeChoices ==
    { <<>>,
      << <<"*">> >>,
      << <<"a", "/">> >>,
      << <<"/", "a", "/", "*">> >>,
      << <<"a", "/", "*", "*", "/", "x">> >>,
      << <<"/", "a", "/", "b", "/", "x">>, <<"b", "/", "*", "*">> >> }

ExcludeChoices ==
    { <<>>,
      << <<"a", "/">> >>,
      << <<"/", "a", "/", "*", "*", "/", "x">>, <<"X">> >> }

Configs ==
    [include : IncludeChoices,
     exclude : ExcludeChoices,
     default_excludes : BOOLEAN,
     casesensitive : BOOLEAN,
     walker : {"os.walk", "walk_from_list"}]

Init ==
    /\ pc = "new"
    /\ cfg \in Configs
    /\ listing \in TreeLists(PathUniverse, MaxTreeFiles)
    /\ fset = NoFileSet
    /\ wq = <<>>
    /\ inc_state = <<>>
    /\ exc_state = <<>>
    /\ visited = <<>>
    /\ pruned = {}
    /\ emitted = <<>>
    /\ hashseed \in Orderings(file_names(listing))
    /\ run = 1
    /\ first_emitted = <<>>
    /\ IdleCompile
    /\ IdleMatch
    /\ IdleExtra

Spec == Init /\ [][Next]_vars

-----------------------------------------------------------------------------
(* A FileSet over trees that hold the directories of version-control systems *)

VcsNames ==
    { <<"C", "V", "S">>, <<".", "g", "i", "t">>, <<".", "s", "v", "n">>,
      <<".", "h", "g">>, <<".", "b", "z", "r">>, <<"S", "C", "C", "S">>,
      <<"_", "_", "p", "y", "c", "a", "c", "h", "e", "_", "_">> }

\* an order of the names, to list the paths of a tree in
VcsOrder == CHOOSE o \in Orderings(VcsNames) : TRUE

\* x directly under each such directory, x two levels under one inside a, and
\* three files outside any of them, one of which the default list names
DefaultsUniverse ==
    [i \in 1..Len(VcsOrder) |-> VcsOrder[i] \o <<SEP, "x">>]
    \o [i \in 1..Len(VcsOrder) |-> <<"a", SEP>> \o VcsOrder[i] \o <<SEP, "b", SEP, "x">>]
    \o << <<"x">>, <<"a", "/", "x">>, <<"a", "/", "x", "~">> >>

DefaultsIncludes ==
    { << <<"*">> >>,
      << <<"*", "*", "/", "x">> >>,
      << <<"/", "a", "/", "*", "*">>, <<"/", "*", "/", "x">> >> }

DefaultsConfigs ==
    [include : DefaultsIncludes,
     exclude : {<<>>},
     default_excludes : BOOLEAN,
     casesensitive : BOOLEAN,
     walker : {"os.walk", "walk_from_list"}]

InitDefaults ==
    /\ pc = "new"
    /\ cfg \in DefaultsConfigs
    /\ listing \in TreeLists(DefaultsUniverse, MaxTreeFiles)
    /\ fset = NoFileSet
    /\ wq = <<>>
    /\ inc_state = <<>>
    /\ exc_state = <<>>
    /\ visited = <<>>
    /\ pruned = {}
    /\ emitted = <<>>
    /\ hashseed \in Orderings(file_names(listing))
    /\ run = 1
    /\ first_emitted = <<>>
    /\ IdleCompile
    /\ IdleMatch
    /\ IdleExtra

SpecDefaults == InitDefaults /\ [][Next]_vars

-----------------------------------------------------------------------------
(* A FileSet enumerated twice over the same tree *)

TwiceIncludes ==
    { << <<"*">> >>,
      << <<"/", "*">> >>,
      << <<"a", "/">> >>,
      << <<"/", "a", "/", "*">>, <<"/", "x">> >> }

TwiceExcludes ==
    { <<>>,
      << <<"/", "a", "/", "x">> >> }

TwiceConfigs ==
    [include : TwiceIncludes,
     exclude : TwiceExcludes,
     default_excludes : BOOLEAN,
     casesensitive : {TRUE},
     walker : {"os.walk", "walk_from_list"}]

InitTwice ==
    /\ pc = "new"
    /\ cfg \in TwiceConfigs
    /\ listing \in TreeLists(PathUniverse, MaxTreeFiles)
    /\ fset = NoFileSet
    /\ wq = <<>>
    /\ inc_state = <<>>
    /\ exc_state = <<>>
    /\ visited = <<>>
    /\ pruned = {}
    /\ emitted = <<>>
    /\ hashseed \in Orderings(file_names(listing))
    /\ run = 1
    /\ first_emitted = <<>>
    /\ IdleCompile
    /\ IdleMatch
    /\ IdleExtra

NextTwice == Construct \/ StartWalk \/ Receive \/ Finish \/ Restart

SpecTwice == InitTwice /\ [][NextTwice]_vars

-----------------------------------------------------------------------------
(* A wildcard token against a name: the token as a Matcher (a directory    *)
(* component) and as the file pattern of Pattern.create(token)             *)

WildChars == {"*", "?", "[", "]", "a"}
NameChars == {"a", "[", "]"}
WildTokens == SeqsUpTo(WildChars, MaxWildLen) \ {<<>>}
WildNames == SeqsUpTo(NameChars, MaxNameLen)

InitWild ==
    /\ pc = "wild"
    /\ wtoken \in WildTokens
    /\ wname \in WildNames
    /\ wcase \in BOOLEAN
    /\ token_ok = NoMatchYet
    /\ file_ok = NoMatchYet
    /\ IdleCompile
    /\ IdleMatch
    /\ IdleFileSet
    /\ IdleButWild

\* Matcher.create(wtoken, casesensitive).match(wname)
MatchToken ==
    /\ pc = "wild"
    /\ token_ok' = Matcher_match(Matcher_create(wtoken, wcase), wname)
    /\ pc' = "token"
    /\ UNCHANGED <<wtoken, wname, wcase, file_ok, cvars, mvars, fvars, wrest>>

\* Pattern.create(wtoken, casesensitive).file_filter([wname])
FilterFile ==
    /\ pc = "token"
    /\ file_ok' = file_accepts(create(wtoken, wcase, 1).patterns[1], wname)
    /\ pc' = "file"
    /\ UNCHANGED <<wtoken, wname, wcase, token_ok, cvars, mvars, fvars, wrest>>

NextWild == MatchToken \/ FilterFile

SpecWild == InitWild /\ [][NextWild]_vars

-----------------------------------------------------------------------------
(* command.main on parsed arguments, over a tree under the start directory. *)
(* The package's data files (VERSION.txt, LICENSE.txt) are installed.       *)

IncludeArgs ==
    { <<>>,
      << <<"*">> >>,
      << <<"a", "/">> >>,
      << <<"a", "/", ".", ".", "/", "x">> >>,
      << <<".">> >> }

ExcludeArgs ==
    { <<>>,
      << <<"X">> >>,
      << <<"*">>, <<".", ".">> >> }

MainArgs ==
    [include : IncludeArgs,
     exclude : ExcludeArgs,
     default_excludes : BOOLEAN,
     relative : BOOLEAN,
     insensitive : {FALSE},
     info : {"none", "help", "usage", "version", "license"}]

\* the arguments main hands to the FileSet constructor
main_config(a) ==
    [include |-> IF a.include # <<>> THEN a.include ELSE << <<"*">> >>,
     exclude |-> a.exclude,
     default_excludes |-> a.default_excludes,
     casesensitive |-> ~a.insensitive,
     walker |-> "os.walk"]

\* the line main writes for one yielded (directory, file_name)
main_line(a, e) ==
    (IF a.relative THEN <<".">> ELSE StartDir)
    \o (IF e[1] # <<>> THEN <<SEP>> \o e[1] ELSE <<>>)
    \o <<SEP>> \o e[2]

InitMain ==
    /\ pc = "main"
    /\ argv \in MainArgs
    /\ interp \in {2, 3}
    /\ printed = <<>>
    /\ stdout = <<>>
    /\ returned = <<>>
    /\ raised = "none"
    /\ cfg = NoConfig
    /\ listing \in TreeLists(PathUniverse, MaxTreeFiles)
    /\ fset = NoFileSet
    /\ wq = <<>>
    /\ inc_state = <<>>
    /\ exc_state = <<>>
    /\ visited = <<>>
    /\ pruned = {}
    /\ emitted = <<>>
    /\ hashseed \in Orderings(file_names(listing))
    /\ run = 1
    /\ first_emitted = <<>>
    /\ IdleCompile
    /\ IdleMatch
    /\ IdleButMain

\* main with --help, --usage, --version or --license: print and return 0
MainInfo ==
    /\ pc = "main"
    /\ argv.info # "none"
    /\ printed' = <<argv.info>>
    /\ returned' = <<0>>
    /\ pc' = "exit"
    /\ UNCHANGED <<argv, interp, stdout, raised, cvars, mvars, fvars, arest>>

\* main: the call of the FileSet constructor inside try
MainConstruct ==
    /\ pc = "main"
    /\ argv.info = "none"
    /\ cfg' = main_config(argv)
    /\ fset' = FileSet_init(main_config(argv))
    /\ pc' = IF fset'.err = "none" THEN "ready" ELSE "error"
    /\ UNCHANGED <<listing, wq, inc_state, exc_state, visited, pruned, emitted,
                   hashseed, run, first_emitted, cvars, mvars, xvars>>

\* main: "except FormicError as exception": print_usage(), then
\* print(exception.message) and return 1.  BaseException has the attribute
\* message in Python 2 only; FormicError does not set it.
MainCatch ==
    /\ pc = "error"
    /\ fset.err = "FormicError"
    /\ IF interp = 2
       THEN /\ printed' = <<"usage", "message">>
            /\ returned' = <<1>>
            /\ raised' = "none"
       ELSE /\ printed' = <<"usage">>
            /\ returned' = <<>>
            /\ raised' = "AttributeError"
    /\ pc' = "exit"
    /\ UNCHANGED <<argv, interp, stdout, cvars, mvars, fvars, arest>>

\* main: an exception of the constructor that is no FormicError passes the
\* except clause
MainEscape ==
    /\ pc = "error"
    /\ fset.err # "FormicError"
    /\ raised' = fset.err
    /\ pc' = "exit"
    /\ UNCHANGED <<argv, interp, printed, stdout, returned, cvars, mvars, fvars, arest>>

\* main: files() is exhausted; the lines written for what it yielded; return 0
MainReturn ==
    /\ pc = "done"
    /\ stdout' = [i \in 1..Len(emitted) |-> main_line(argv, emitted[i])]
    /\ returned' = <<0>>
    /\ pc' = "exit"
    /\ UNCHANGED <<argv, interp, printed, raised, cvars, mvars, fvars, arest>>

NextMain ==
    \/ MainInfo \/ MainConstruct \/ MainCatch \/ MainEscape
    \/ StartWalk \/ Receive \/ Finish \/ MainReturn

SpecMain == InitMain /\ [][NextMain]_vars

-----------------------------------------------------------------------------
(* Section.match_iter on one section, bound or not at either end *)

IterTokens == {STAR, <<"a">>, <<"b">>}

IterSections ==
    {[Section_init(e, TRUE) EXCEPT !.bound_start = bs, !.bound_end = be] :
        e \in SeqsUpTo(IterTokens, MaxSectionLen) \ {<<>>},
        bs \in BOOLEAN, be \in BOOLEAN}

InitIter ==
    /\ pc = "section"
    /\ isection \in IterSections
    /\ ipath \in SeqsUpTo(MatchNames, MaxPathLen)
    /\ istart \in 0..MaxPathLen
    /\ iends = NoEnds
    /\ igeneric = NoEnds
    /\ IdleCompile
    /\ IdleMatch
    /\ IdleFileSet
    /\ IdleButIter

\* list(section.match_iter(path_elements, start_at))
IterMatch ==
    /\ pc = "section"
    /\ iends' = match_iter(isection, ipath, istart)
    /\ pc' = "iterated"
    /\ UNCHANGED <<isection, ipath, istart, igeneric, cvars, mvars, fvars, irest>>

\* list(section._match_iter_generic(path_elements, start_at))
IterGeneric ==
    /\ pc = "iterated"
    /\ igeneric' = match_iter_generic(isection, ipath, istart)
    /\ pc' = "compared"
    /\ UNCHANGED <<isection, ipath, istart, iends, cvars, mvars, fvars, irest>>

NextIter == IterMatch \/ IterGeneric

SpecIter == InitIter /\ [][NextIter]_vars

-----------------------------------------------------------------------------
(* One PatternSet under append, extend, remove and all_files *)

\* the patterns at hand: '**/*' and '**/a/*' accept every file name,
\* '/a/x' and '**/a' do not
SetPool ==
    { create(<<"*">>, TRUE, 1).patterns[1],
      create(<<"a", "/", "*">>, TRUE, 2).patterns[1],
      create(<<"/", "a", "/", "x">>, TRUE, 3).patterns[1],
      create(<<"a">>, TRUE, 4).patterns[1] }

InitSet ==
    /\ pc = "set"
    /\ pset = PatternSet_new
    /\ pset_answer = "pending"
    /\ pset_raised = "none"
    /\ IdleCompile
    /\ IdleMatch
    /\ IdleFileSet
    /\ IdleButSet

\* pattern_set.append(pattern)
SetAppend ==
    /\ pc = "set"
    /\ Len(pset.patterns) < MaxSetLen
    /\ \E p \in SetPool : pset' = PatternSet_append(pset, p)
    /\ pset_answer' = "pending"
    /\ pset_raised' = "none"
    /\ UNCHANGED <<pc, cvars, mvars, fvars, srest>>

\* pattern_set.extend(pattern): a single Pattern is appended
SetExtendSingle ==
    /\ pc = "set"
    /\ Len(pset.patterns) < MaxSetLen
    /\ \E p \in SetPool : pset' = PatternSet_append(pset, p)
    /\ pset_answer' = "pending"
    /\ pset_raised' = "none"
    /\ UNCHANGED <<pc, cvars, mvars, fvars, srest>>

\* pattern_set.extend(other), other a PatternSet: its list is taken
SetExtendSet ==
    /\ pc = "set"
    /\ \E other \in [patterns : SeqsUpTo(SetPool, MaxExtendLen),
                     all_files : {"True", "False", "None"}] :
          /\ Len(pset.patterns) + Len(other.patterns) <= MaxSetLen
          /\ pset' = PatternSet_extend(pset, other.patterns)
    /\ pset_answer' = "pending"
    /\ pset_raised' = "none"
    /\ UNCHANGED <<pc, cvars, mvars, fvars, srest>>

\* pattern_set.extend(list)
SetExtendList ==
    /\ pc = "set"
    /\ \E list \in SeqsUpTo(SetPool, MaxExtendLen) :
          /\ Len(pset.patterns) + Len(list) <= MaxSetLen
          /\ pset' = PatternSet_extend(pset, list)
    /\ pset_answer' = "pending"
    /\ pset_raised' = "none"
    /\ UNCHANGED <<pc, cvars, mvars, fvars, srest>>

\* pattern_set.remove(pattern); list.remove raises ValueError, before the
\* cache is touched, when the pattern is not in the list
SetRemove ==
    /\ pc = "set"
    /\ \E p \in SetPool :
          IF \E i \in 1..Len(pset.patterns) : pset.patterns[i] = p
          THEN pset' = PatternSet_remove(pset, p) /\ pset_raised' = "none"
          ELSE pset' = pset /\ pset_raised' = "ValueError"
    /\ pset_answer' = "pending"
    /\ UNCHANGED <<pc, cvars, mvars, fvars, srest>>

\* pattern_set.all_files()
SetAllFiles ==
    /\ pc = "set"
    /\ pset_answer' = bool_str(PatternSet_all_files(pset))
    /\ pset' = PatternSet_cached(pset)
    /\ pset_raised' = "none"
    /\ UNCHANGED <<pc, cvars, mvars, fvars, srest>>

NextSet ==
    \/ SetAppend \/ SetExtendSingle \/ SetExtendSet \/ SetExtendList
    \/ SetRemove \/ SetAllFiles

SpecSet == InitSet /\ [][NextSet]_vars

-----------------------------------------------------------------------------
(* A loop over pattern_set.iter() whose body changes the set *)

InitGen ==
    /\ pc = "loop"
    /\ pset \in [patterns : SeqsUpTo(SetPool, MaxIterLen), all_files : {"None"}]
    /\ pset_answer = "pending"
    /\ pset_raised = "none"
    /\ gen_state = "none"
    /\ gen_snapshot = <<>>
    /\ pset_begun = <<>>
    /\ pset_yielded = <<>>
    /\ IdleCompile
    /\ IdleMatch
    /\ IdleFileSet
    /\ IdleButGen

\* pattern_set.iter(): a generator is made; its body has not run yet
GenCall ==
    /\ pc = "loop"
    /\ gen_state = "none"
    /\ gen_state' = "new"
    /\ UNCHANGED <<pc, gen_snapshot, pset_begun, pset_yielded, svars,
                   cvars, mvars, fvars, grest>>

\* the first next() on the generator: "if self.patterns", the copy of the
\* list, and the first yield
GenFirst ==
    /\ pc = "loop"
    /\ gen_state = "new"
    /\ pset_begun' = pset.patterns
    /\ IF pset.patterns # <<>>
       THEN /\ gen_snapshot' = iter_start(pset)
            /\ pset_yielded' = iter_step(pset, iter_start(pset), 0)
            /\ gen_state' = "running"
       ELSE /\ gen_snapshot' = <<>>
            /\ pset_yielded' = <<>>
            /\ gen_state' = "done"
    /\ UNCHANGED <<pc, svars, cvars, mvars, fvars, grest>>

\* a later next() on the generator
GenNext ==
    /\ pc = "loop"
    /\ gen_state = "running"
    /\ pset_yielded' = pset_yielded \o iter_step(pset, gen_snapshot, Len(pset_yielded))
    /\ gen_state' = IF iter_step(pset, gen_snapshot, Len(pset_yielded)) = <<>>
                    THEN "done" ELSE "running"
    /\ UNCHANGED <<pc, gen_snapshot, pset_begun, svars, cvars, mvars, fvars, grest>>

\* the loop's body removes a pattern from the set, as FileSetState.__init__ does
GenBodyRemove ==
    /\ pc = "loop"
    /\ gen_state \in {"new", "running"}
    /\ \E i \in 1..Len(pset.patterns) : pset' = PatternSet_remove(pset, pset.patterns[i])
    /\ UNCHANGED <<pc, pset_answer, pset_raised, gvars, cvars, mvars, fvars, grest>>

\* the loop's body appends a pattern to the set
GenBodyAppend ==
    /\ pc = "loop"
    /\ gen_state \in {"new", "running"}
    /\ Len(pset.patterns) < MaxIterLen
    /\ \E p \in SetPool : pset' = PatternSet_append(pset, p)
    /\ UNCHANGED <<pc, pset_answer, pset_raised, gvars, cvars, mvars, fvars, grest>>

NextGen == GenCall \/ GenFirst \/ GenNext \/ GenBodyRemove \/ GenBodyAppend

SpecGen == InitGen /\ [][NextGen]_vars

-----------------------------------------------------------------------------
(* A chain of FileSetState instances: a root state built from a PatternSet *)
(* of seeds, then one state per directory of a depth-first pre-order walk, *)
(* each built from the state of the directory yielded before it.           *)

MaxChainSeeds == 2

ChainGlobs ==
    { <<"*">>,
      <<"/", "x">>,
      <<"/", "a", "/", "*">>,
      <<"/", "a", "/", "b", "/", "x">>,
      <<"a", "/", "*", "*", "/", "x">>,
      <<"b", "/">>,
      <<"/", "*", "/", "a">>,
      <<"/", "*", "*", "/", "b", "/", "*">> }

ChainFiles == {<<"x">>, <<"a">>}

\* the directories of the walk, as path elements; the root is <<>>
ChainDirs ==
    { <<>>,
      << <<"a">> >>,
      << <<"a">>, <<"a">> >>,
      << <<"a">>, <<"b">> >>,
      << <<"a">>, <<"b">>, <<"a">> >>,
      << <<"b">> >>,
      << <<"b">>, <<"a">> >> }

\* a pre-order walk may yield d after the directory of path_elements: d is
\* new and its parent directory is that directory or one above it
may_follow(d, path_elements, walked) ==
    /\ d # <<>>
    /\ d \notin walked
    /\ Len(d) - 1 <= Len(path_elements)
    /\ SubSeq(d, 1, Len(d) - 1) = SubSeq(path_elements, 1, Len(d) - 1)

InitChain ==
    /\ pc = "chain"
    /\ chain_seeds \in {preprocess(g, TRUE, 1).set : g \in SeqsUpTo(ChainGlobs, MaxChainSeeds)}
    /\ chain_state = <<>>
    /\ chain_walked = {}
    /\ chain_files = {}
    /\ chain_answer = <<>>
    /\ IdleCompile
    /\ IdleMatch
    /\ IdleFileSet
    /\ IdleButChain

\* FileSetState(label, '', None, seeds): the state of the start directory
ChainRoot ==
    /\ pc = "chain"
    /\ chain_state = <<>>
    /\ chain_state' = <<FileSetState_init(<<>>, <<>>, <<chain_seeds>>)>>
    /\ chain_walked' = {<<>>}
    /\ UNCHANGED <<pc, chain_seeds, chain_files, chain_answer, cvars, mvars, fvars, hrest>>

\* FileSetState(label, directory, previous, None): the state of the next
\* directory of the walk
ChainDescend ==
    /\ pc = "chain"
    /\ chain_state # <<>>
    /\ \E d \in ChainDirs :
           /\ may_follow(d, chain_state[1].path_elements, chain_walked)
           /\ chain_state' = <<FileSetState_init(join(<<SEP>>, d), chain_state, <<>>)>>
           /\ chain_walked' = chain_walked \cup {d}
    /\ chain_files' = {}
    /\ chain_answer' = <<>>
    /\ UNCHANGED <<pc, chain_seeds, cvars, mvars, fvars, hrest>>

\* state.match(files) on the state of the directory yielded last
ChainMatch ==
    /\ pc = "chain"
    /\ chain_state # <<>>
    /\ chain_answer = <<>>
    /\ \E files \in SUBSET ChainFiles :
           /\ chain_files' = files
           /\ chain_answer' = <<FileSetState_match(chain_state[1], files)>>
           /\ chain_state' = <<FileSetState_after_match(chain_state[1], files)>>
    /\ UNCHANGED <<pc, chain_seeds, chain_walked, cvars, mvars, fvars, hrest>>

NextChain == ChainRoot \/ ChainDescend \/ ChainMatch

SpecChain == InitChain /\ [][NextChain]_vars

-----------------------------------------------------------------------------
(* The properties *)

\* the components of a relative directory name
dir_components(d) == IF d = <<>> THEN <<>> ELSE split(d)

\* a pattern matches (d, f): match_directory on d's components has the MATCH
\* bit and the file pattern accepts f
pattern_matches(p, d, f) ==
    /\ has_bit(match_directory(p, dir_components(d)), BIT_MATCH)
    /\ file_accepts(p, f)

any_matches(patterns, d, f) ==
    \E i \in 1..Len(patterns) : pattern_matches(patterns[i], d, f)

\* (any include matches) and not (any exclude matches)
selected(f_set, d, f) ==
    /\ any_matches(f_set.include.patterns, d, f)
    /\ ~any_matches(f_set.exclude.patterns, d, f)

emitted_set == {emitted[k] : k \in 1..Len(emitted)}

\* the file names listed for the directory of relative name d
listed(files, d) ==
    {files_of(files, dir_components(d))[i] :
        i \in 1..Len(files_of(files, dir_components(d)))}

\* every (directory, file) of the unpruned tree that is selected
brute_force(f_set, files) ==
    {e \in {<<join(<<SEP>>, dir_of(files[i])), name_of(files[i])>> : i \in 1..Len(files)} :
        selected(f_set, e[1], e[2])}

C3_EmptyIncludeFails ==
    (/\ pc # "new"
     /\ cfg # NoConfig
     /\ PatternSet_empty(preprocess(cfg.include, cfg.casesensitive, 1).set))
        => fset.err = "FormicError"

\* a path element that names something: not empty, '.', '..' or '**'
concrete(element) == element \notin {EMPTY, DOT, DOTDOT, STARSTAR}

ends_with(s, suffix) ==
    /\ Len(s) >= Len(suffix)
    /\ SubSeq(s, Len(s) - Len(suffix) + 1, Len(s)) = suffix

starts_with(s, prefix) ==
    /\ Len(s) >= Len(prefix)
    /\ SubSeq(s, 1, Len(prefix)) = prefix

\* the last concrete component of a glob
last_concrete(g) ==
    split(g)[CHOOSE i \in 1..Len(split(g)) :
                /\ concrete(split(g)[i])
                /\ \A j \in (i + 1)..Len(split(g)) : ~concrete(split(g)[j])]

\* a glob ending in '/' or '/**' with a concrete component and no '..'
directory_glob(g) ==
    /\ ends_with(g, <<SEP>>) \/ ends_with(g, <<SEP>> \o STARSTAR)
    /\ \E i \in 1..Len(split(g)) : concrete(split(g)[i])
    /\ \A i \in 1..Len(split(g)) : split(g)[i] # DOTDOT

\* pattern "contents" takes every file under directories named x, and pattern
\* "promoted" takes the files named x in the same place: it renders as contents
\* without the closing '/**/*' 
contents_and_promoted(contents, promoted, x) ==
    /\ contents.file_pattern = STAR
    /\ ~contents.bound_end
    /\ contents.sections # <<>>
    /\ LET last == contents.sections[Len(contents.sections)]
       IN  last.elements[Len(last.elements)].pattern = x
    /\ promoted.file_pattern = x
    /\ promoted.bound_start = contents.bound_start
    /\ to_string(contents) = to_string(promoted) \o <<SEP>> \o STARSTAR \o <<SEP>> \o STAR

two_for_directory(c, x) ==
    /\ c.err = "none"
    /\ c.is_set
    /\ Len(c.patterns) = 2
    /\ \/ contents_and_promoted(c.patterns[1], c.patterns[2], x)
       \/ contents_and_promoted(c.patterns[2], c.patterns[1], x)

\* C4: a glob ending in '/' or '/**' with a concrete component compiles to a
\* PatternSet of exactly two patterns, one with file pattern '*' for the
\* contents of the named directory and one with the last concrete component
\* promoted to the file pattern; and a trailing '/' compiles as a trailing '/**'.
C4_DirectoryGlobGivesTwo ==
    (pc = "compiled" /\ directory_glob(glob)) =>
        /\ two_for_directory(compiled, last_concrete(glob))
        /\ (ends_with(glob, <<SEP>>) => create(glob \o STARSTAR, TRUE, 1) = compiled)

\* C5: if match_directory(p) has the ALL_SUBDIRECTORIES bit then
\* match_directory(p ++ q) has the MATCH bit, for every extension q.
C5_AllSubdirectoriesSound ==
    (pc = "extended" /\ has_bit(mres, BIT_ALL_SUBDIRECTORIES)) =>
        has_bit(mext, BIT_MATCH)

\* a pattern with a section matched a directory with the ALL_SUBDIRECTORIES
\* bit, and a longer directory was then matched
C5_Witness ==
    /\ pc = "extended"
    /\ pat.sections # <<>>
    /\ has_bit(mres, BIT_ALL_SUBDIRECTORIES)
    /\ ext # <<>>
    /\ path # <<>>

\* C6: if match_directory(p) has the NO_SUBDIRECTORIES bit then
\* match_directory(p ++ q) lacks the MATCH bit, for every non-empty extension q.
C6_NoSubdirectoriesSound ==
    (pc = "extended" /\ has_bit(mres, BIT_NO_SUBDIRECTORIES) /\ ext # <<>>) =>
        ~has_bit(mext, BIT_MATCH)

\* a bound pattern whose first section is longer than the non-empty path ruled
\* the subdirectories out, and a longer directory was then matched
C6_Witness ==
    /\ pc = "extended"
    /\ mres = NO_MATCH_NO_SUBDIRECTORIES
    /\ pat.sections # <<>>
    /\ Len(pat.sections[1].elements) > Len(path)
    /\ path # <<>>
    /\ ext # <<>>

\* every glob of the configuration in upper case
upper_globs(c) ==
    [c EXCEPT !.include = [i \in 1..Len(c.include) |-> upper(c.include[i])],
              !.exclude = [i \in 1..Len(c.exclude) |-> upper(c.exclude[i])]]

\* every name of the tree in upper case
upper_names(files) == [i \in 1..Len(files) |-> upper(files[i])]

upper_pairs(pairs) == {<<upper(e[1]), upper(e[2])>> : e \in pairs}

\* C7: with casesensitive = False, changing the case of the globs leaves the
\* emitted set as it is, and changing the case of the names of the tree renames
\* the emitted pairs and changes nothing else; default excludes on or off.
C7_ClosedUnderCase ==
    (/\ pc = "done"
     /\ ~cfg.casesensitive
     /\ Cardinality({upper(listing[i]) : i \in 1..Len(listing)}) = Len(listing))
        => /\ Enumerate(upper_globs(cfg), listing).emitted = emitted_set
           /\ Enumerate(cfg, upper_names(listing)).emitted = upper_pairs(emitted_set)

\* C8: with default_excludes true, no emitted file is matched by a pattern of
\* the default-exclude list, and none lies at any depth under a directory named
\* CVS, .git, .svn, .hg, .bzr, SCCS or __pycache__.
C8_DefaultExcludesHold ==
    (pc \in {"walking", "done"} /\ cfg.default_excludes) =>
        \A e \in emitted_set :
            /\ ~any_matches(DEFAULT_EXCLUDES, e[1], e[2])
            /\ \A i \in 1..Len(dir_components(e[1])) :
                  dir_components(e[1])[i] \notin VcsNames

\* a finished run with default excludes that emitted a file and held back a
\* file under one of the named directories that an include pattern matched
C8_Witness ==
    /\ pc = "done"
    /\ cfg.default_excludes
    /\ emitted # <<>>
    /\ \E i \in 1..Len(listing) :
          /\ \E j \in 1..Len(dir_of(listing[i])) : dir_of(listing[i])[j] \in VcsNames
          /\ any_matches(fset.include.patterns,
                         join(<<SEP>>, dir_of(listing[i])), name_of(listing[i]))
          /\ <<join(<<SEP>>, dir_of(listing[i])), name_of(listing[i])>> \notin emitted_set

\* C9: for a glob that compiles to a single Pattern, compiling the rendered
\* string of the Pattern gives a Pattern with the same bound_start, bound_end,
\* sections and file_pattern.
C9_RenderIdempotent ==
    (pc = "rendered" /\ ~compiled.is_set) =>
        /\ recompiled[1].err = "none"
        /\ ~recompiled[1].is_set
        /\ fields(recompiled[1].patterns[1]) = fields(compiled.patterns[1])

\* what a compilation is compared by: how it ended, and the fields of its patterns
outcome(c) ==
    [err |-> c.err, fields |-> {fields(c.patterns[i]) : i \in 1..Len(c.patterns)}]

\* C10: for a glob g that starts with neither '/' nor '**', the globs g,
\* '**/' + g and '/**/' + g compile to patterns with equal sections,
\* bound_start, bound_end and file pattern.
C10_FloatingFormsEqual ==
    (/\ pc = "floated"
     /\ ~starts_with(glob, <<SEP>>)
     /\ ~starts_with(glob, STARSTAR))
        => /\ outcome(floating[1]) = outcome(compiled)
           /\ outcome(floating[2]) = outcome(compiled)

\* C11: a compiled pattern's bound_start is true exactly when the
\* glob began with a path separator.
C11_BoundStartIffLeadingSep ==
    (pc = "compiled" /\ compiled.err = "none") =>
        \A i \in 1..Len(compiled.patterns) :
            compiled.patterns[i].bound_start <=> starts_with(glob, <<SEP>>)

\* C12: the element list handed to the Pattern constructor holds no '.'
\* element and no two adjacent '**' elements.
C12_NoDotNoAdjacentStarStar ==
    (pc = "compiled" /\ compiled.err = "none") =>
        /\ \A i \in 1..Len(normalised(glob).elements) :
              normalised(glob).elements[i] # DOT
        /\ \A i \in 1..(Len(normalised(glob).elements) - 1) :
              ~(/\ normalised(glob).elements[i] = STARSTAR
                /\ normalised(glob).elements[i + 1] = STARSTAR)

\* the glob has a '..' between separators, or at either end
has_dotdot(g) == \E i \in 1..Len(split(g)) : split(g)[i] = DOTDOT

\* C13: compiling a glob that holds a '..' component, wherever it stands, ends
\* in FormicError and gives no pattern.
C13_DotDotIsFormicError ==
    (pc = "compiled" /\ has_dotdot(glob)) =>
        /\ compiled.err = "FormicError"
        /\ compiled.patterns = <<>>

\* a glob whose last component, after others, is '..' was compiled and failed
C13_Witness ==
    /\ pc = "compiled"
    /\ Len(split(glob)) >= 2
    /\ split(glob)[Len(split(glob))] = DOTDOT
    /\ split(glob)[1] \notin {DOTDOT, EMPTY}
    /\ compiled.err = "FormicError"

\* C14: Pattern.create either returns (a Pattern or a PatternSet) or fails
\* with FormicError; no other error escapes, globs made only of '.' included.
C14_OnlyFormicErrorEscapes ==
    (pc = "compiled") => compiled.err \in {"none", "FormicError"}

\* the wildcard match the contract describes: '?' one character, '*' any run,
\* every other character itself
RECURSIVE plain_wildcard(_, _)
plain_wildcard(n, w) ==
    IF w = <<>> THEN n = <<>>
    ELSE IF Head(w) = "*"
         THEN plain_wildcard(n, Tail(w)) \/ (n # <<>> /\ plain_wildcard(Tail(n), w))
    ELSE IF Head(w) = "?"
         THEN n # <<>> /\ plain_wildcard(Tail(n), Tail(w))
    ELSE n # <<>> /\ Head(n) = Head(w) /\ plain_wildcard(Tail(n), Tail(w))

has_wildcard(w) == Contains(w, "*") \/ Contains(w, "?")

\* C15: a wildcard token, as a matcher and as a file pattern, accepts a name
\* exactly when the name matches it with '?' one character, '*' any run and
\* every other character, '[' and ']' included, standing for itself.
C15_WildcardsOnly ==
    has_wildcard(wtoken) =>
        /\ (pc \in {"token", "file"}) => (token_ok <=> plain_wildcard(wname, wtoken))
        /\ (pc = "file") => (file_ok <=> plain_wildcard(wname, wtoken))

\* the place of file name f in the walker's list for the directory named d
listed_at(files, d, f) ==
    CHOOSE i \in 1..Len(files_of(files, dir_components(d))) :
        files_of(files, dir_components(d))[i] = f

\* the place of the directory named d among the directories yielded so far
visited_at(d) == CHOOSE k \in 1..Len(visited) : visited[k] = d

\* C16: the files of one directory are emitted in the order the walker listed
\* them, each listed name that is emitted is emitted once per listing, and the
\* emissions of a directory come before those of directories yielded later.
C16_EmittedInWalkerOrder ==
    pc \in {"walking", "done"} =>
        \A i, j \in 1..Len(emitted) :
            i < j =>
                IF emitted[i][1] = emitted[j][1]
                THEN listed_at(listing, emitted[i][1], emitted[i][2])
                         < listed_at(listing, emitted[j][1], emitted[j][2])
                ELSE visited_at(emitted[i][1]) < visited_at(emitted[j][1])

\* C17: a second call of files() on the same FileSet over the same walker
\* output yields the sequence the first call yielded, and the FileSet's include
\* and exclude pattern sets are what the constructor made them.
C17_SecondRunIdentical ==
    (pc = "done" /\ run = 2) =>
        /\ emitted = first_emitted
        /\ fset.include = FileSet_init(cfg).include
        /\ fset.exclude = FileSet_init(cfg).exclude

\* a second run that ended after yielding two files, one of a subdirectory
C17_Witness ==
    /\ pc = "done"
    /\ run = 2
    /\ Len(emitted) >= 2
    /\ \E i \in 1..Len(emitted) : emitted[i][1] # <<>>
    /\ Len(visited) >= 2

\* directory d lies below directory p
below(d, p) ==
    /\ Len(dir_components(d)) > Len(dir_components(p))
    /\ SubSeq(dir_components(d), 1, Len(dir_components(p))) = dir_components(p)

\* C18: under the walker of TreeWalk.walk_from_list, once _receive has emptied
\* the dirs list yielded for a directory, no directory below it is yielded.
C18_ListWalkerHonoursPruning ==
    (cfg # NoConfig /\ cfg.walker = "walk_from_list") =>
        \A k \in 1..Len(visited) : \A p \in pruned : ~below(visited[k], p)

\* some glob given to main is one the compiler rejects as a configuration error
invalid_glob(a) ==
    \E i \in 1..Len(main_config(a).include \o a.exclude) :
        has_dotdot((main_config(a).include \o a.exclude)[i])

\* C19: given an invalid glob, main prints the usage summary and the error
\* message and returns 1; in every other case it returns 0.
C19_ExitCodes ==
    pc = "exit" =>
        IF argv.info = "none" /\ invalid_glob(argv)
        THEN /\ returned = <<1>>
             /\ printed = <<"usage", "message">>
        ELSE returned = <<0>>

\* the section's matchers accept the components from Python index at on
section_fits(section, components_, at) ==
    /\ at + Len(section.elements) <= Len(components_)
    /\ \A j \in 1..Len(section.elements) :
          Matcher_match(section.elements[j], components_[at + j])

\* start positions for the sections of p, in order and without overlap, each
\* section fitting at its position, the first at 0 when p is bound_start and
\* the last ending at the end when p is bound_end
assignment_exists(p, components_) ==
    \E pos \in [1..Len(p.sections) -> 0..Len(components_)] :
        /\ \A i \in 1..Len(p.sections) : section_fits(p.sections[i], components_, pos[i])
        /\ \A i \in 1..(Len(p.sections) - 1) :
              pos[i] + Len(p.sections[i].elements) <= pos[i + 1]
        /\ p.bound_start => pos[1] = 0
        /\ p.bound_end =>
              pos[Len(p.sections)] + Len(p.sections[Len(p.sections)].elements)
                  = Len(components_)

\* C20: for a pattern with a section, match_directory has the MATCH bit exactly
\* when such start positions exist; taking each section at its earliest
\* candidate misses none.
C20_MatchIffAssignment ==
    pat # NoPattern /\ pat.sections # <<>> =>
        /\ (pc \in {"matched", "extended"}) =>
              (has_bit(mres, BIT_MATCH) <=> assignment_exists(pat, path))
        /\ (pc = "extended") =>
              (has_bit(mext, BIT_MATCH) <=> assignment_exists(pat, path \o ext))

\* a pattern of two sections matched a directory in which its first section
\* fits at several places, the last of which leaves no room for the second
C20_Witness ==
    /\ pc = "matched"
    /\ Len(pat.sections) = 2
    /\ Len(match_iter(pat.sections[1], path, 0)) >= 2
    /\ has_bit(mres, BIT_MATCH)
    /\ match_iter(pat.sections[2], path,
                  match_iter(pat.sections[1], path, 0)
                      [Len(match_iter(pat.sections[1], path, 0))]) = <<>>

\* what the contract gives for pattern p on a directory where all its sections
\* are consumed, or for a pattern without sections
expected_match(p, components_) ==
    IF p.sections # <<>>
    THEN IF Len(p.sections) = 1 /\ p.bound_start /\ p.bound_end
         THEN MATCH_BUT_NO_SUBDIRECTORIES
         ELSE IF p.bound_end THEN MATCH ELSE MATCH_ALL_SUBDIRECTORIES
    ELSE IF p.bound_start
         THEN IF components_ = <<>>
              THEN MATCH_BUT_NO_SUBDIRECTORIES
              ELSE NO_MATCH_NO_SUBDIRECTORIES
         ELSE MATCH_ALL_SUBDIRECTORIES

\* the contract speaks of this pattern on this directory
match_decided(p, components_) ==
    p.sections = <<>> \/ assignment_exists(p, components_)

\* C21: when all sections are consumed match_directory gives
\* MATCH_BUT_NO_SUBDIRECTORIES for one section bound at both ends, MATCH when
\* bound_end otherwise, MATCH_ALL_SUBDIRECTORIES when not bound_end; without
\* sections it gives MATCH_BUT_NO_SUBDIRECTORIES at the root and
\* NO_MATCH_NO_SUBDIRECTORIES elsewhere when bound_start, and
\* MATCH_ALL_SUBDIRECTORIES when not bound_start.
C21_MatchTypeOnSuccess ==
    pat # NoPattern =>
        /\ (pc \in {"matched", "extended"} /\ match_decided(pat, path)) =>
              mres = expected_match(pat, path)
        /\ (pc = "extended" /\ match_decided(pat, path \o ext)) =>
              mext = expected_match(pat, path \o ext)

\* a pattern of one section of two matchers, bound at both ends, matched the
\* directory of its two components
C21_Witness ==
    /\ pc = "matched"
    /\ Len(pat.sections) = 1
    /\ Len(pat.sections[1].elements) = 2
    /\ pat.bound_start
    /\ pat.bound_end
    /\ Len(path) = 2
    /\ mres = MATCH_BUT_NO_SUBDIRECTORIES

\* the ends e = s + length the contract admits for a section
admissible_ends(section, components_, from) ==
    {s + Len(section.elements) : s \in
        {t \in from..Len(components_) :
            /\ section_fits(section, components_, t)
            /\ section.bound_start => t = 0
            /\ section.bound_end => t + Len(section.elements) = Len(components_)}}

\* C22: match_iter yields, in strictly increasing order, exactly the ends
\* s + length with s >= start_at where the matchers accept, s = 0 if the
\* section is bound_start and the end is len(path) if it is bound_end; for a
\* section of one matcher the generic path yields the same as the fast path.
C22_MatchIterExact ==
    /\ (pc \in {"iterated", "compared"}) =>
          /\ \A i \in 1..(Len(iends) - 1) : iends[i] < iends[i + 1]
          /\ {iends[i] : i \in 1..Len(iends)} = admissible_ends(isection, ipath, istart)
    /\ (pc = "compared" /\ Len(isection.elements) = 1) => igeneric = iends

\* a section of one matcher gave two ends from a start past the first component
C22_Witness ==
    /\ pc = "compared"
    /\ Len(isection.elements) = 1
    /\ istart >= 1
    /\ Len(iends) >= 2

\* some pattern now in the set has the file pattern '*'
holds_star(ps) == \E i \in 1..Len(ps.patterns) : ps.patterns[i].file_pattern = STAR

\* C23: after any sequence of append, extend and remove, all_files() is true
\* exactly when a pattern now in the set has the file pattern '*': what it
\* returned, what it would return now, and what the cache holds all agree.
C23_AllFilesNeverStale ==
    pc = "set" =>
        /\ PatternSet_all_files(pset) <=> holds_star(pset)
        /\ pset.all_files # "None" => pset.all_files = bool_str(holds_star(pset))
        /\ pset_answer # "pending" => pset_answer = bool_str(holds_star(pset))

\* all_files() answered False on a set of two patterns, its cache now filled
C23_Witness ==
    /\ pc = "set"
    /\ pset_answer = "False"
    /\ Len(pset.patterns) = 2
    /\ pset.all_files = "False"

\* C24: iter() yields exactly the patterns that were in the set when the
\* iteration began, each once and in insertion order, whatever is removed
\* from or added to the set between its steps.
C24_IterYieldsSnapshot ==
    /\ (gen_state \in {"running", "done"}) =>
          /\ Len(pset_yielded) <= Len(pset_begun)
          /\ pset_yielded = SubSeq(pset_begun, 1, Len(pset_yielded))
    /\ (gen_state = "done") => pset_yielded = pset_begun

\* an iteration over three patterns ended on a set that no longer holds the
\* first two of them and has gained another
C24_Witness ==
    /\ gen_state = "done"
    /\ Len(pset_begun) = 3
    /\ pset.patterns # pset_begun
    /\ Len(pset.patterns) = 2
    /\ pset.patterns[1] = pset_begun[3]

\* whether pattern p is in the bag
in_bag(bag, p) == \E i \in 1..Len(bag.patterns) : bag.patterns[i] = p

\* the patterns that were live for a state: the seeds of a root, the
\* matched_and_subdir and unmatched bags of the parent otherwise
live_for(state, seed) ==
    IF state.parent = <<>> THEN seed.patterns
    ELSE state.parent[1].matched_and_subdir.patterns \o state.parent[1].unmatched.patterns

\* the bags of the state that hold pattern p
bags_of(state, p) ==
    {b \in {"matched_inherit", "matched_no_subdir", "matched_and_subdir", "unmatched"} :
        in_bag(state[b], p)}

\* the bags pattern p belongs to by its match_directory result match
bags_due(match) ==
    IF has_bit(match, BIT_MATCH)
    THEN IF has_bit(match, BIT_ALL_SUBDIRECTORIES) THEN {"matched_inherit"}
         ELSE IF has_bit(match, BIT_NO_SUBDIRECTORIES) THEN {"matched_no_subdir"}
         ELSE {"matched_and_subdir"}
    ELSE IF has_bit(match, BIT_NO_SUBDIRECTORIES) THEN {} ELSE {"unmatched"}

\* every live pattern is exactly where its match puts it
bags_sorted(state, seed) ==
    \A i \in 1..Len(live_for(state, seed)) :
        bags_of(state, live_for(state, seed)[i])
            = bags_due(match_directory(live_for(state, seed)[i], state.path_elements))

front(s) == SubSeq(s, 1, Len(s) - 1)

\* the state of a directory records the state of the directory one level up,
\* and so does every state up the chain; the root's state records none
RECURSIVE parents_immediate(_)
parents_immediate(state) ==
    IF state.path_elements = <<>> THEN state.parent = <<>>
    ELSE /\ state.parent # <<>>
         /\ state.parent[1].path_elements = front(state.path_elements)
         /\ parents_immediate(state.parent[1])

\* C26: in a depth-first pre-order walk, each state built from the state of
\* the directory yielded before it, the parent recorded for directory d is the
\* state of the directory one level above d, also when the directory yielded
\* before d is not an ancestor of d.
C26_ParentIsImmediate ==
    /\ (inc_state # <<>>) => parents_immediate(inc_state[1])
    /\ (exc_state # <<>>) => parents_immediate(exc_state[1])

\* directory b is received right after a/b, a descendant of its sibling a
C26_Witness ==
    /\ Len(visited) >= 4
    /\ visited[Len(visited)] = <<"b">>
    /\ visited[Len(visited) - 1] = <<"a", "/", "b">>
    /\ inc_state # <<>>
    /\ inc_state[1].path_elements = << <<"b">> >>
    /\ inc_state[1].parent # <<>>
    /\ inc_state[1].parent[1].path_elements = <<>>

\* the matched_inherit patterns of the state and of every state up its chain
RECURSIVE absorbed(_)
absorbed(state) ==
    state.matched_inherit.patterns
    \o (IF state.parent = <<>> THEN <<>> ELSE absorbed(state.parent[1]))

\* the files some pattern of the list accepts
accepted_by(patterns, files) ==
    {f \in files : \E i \in 1..Len(patterns) : file_accepts(patterns[i], f)}

\* the seed patterns whose match_directory on path_elements has the MATCH bit
seeds_matching(seed, path_elements) ==
    SelectSeq(seed.patterns,
              LAMBDA p : has_bit(match_directory(p, path_elements), BIT_MATCH))

\* C27: for every state of a chain, match(files) returns exactly the names in
\* files that the file pattern of some seed pattern accepts whose
\* match_directory on the state's path has the MATCH bit; that is what the
\* patterns in the state's matched bags and in the matched_inherit bags up
\* the chain accept, and the patterns in unmatched or dropped add nothing.
C27_MatchIsSeedsMatching ==
    (chain_answer # <<>>) =>
        /\ chain_answer[1]
              = accepted_by(seeds_matching(chain_seeds, chain_state[1].path_elements),
                            chain_files)
        /\ chain_answer[1]
              = accepted_by(chain_state[1].matched_and_subdir.patterns
                              \o chain_state[1].matched_no_subdir.patterns
                              \o absorbed(chain_state[1]),
                            chain_files)

\* at a/b, two levels below the root: one seed was absorbed by the
\* matched_inherit bag of a and accepts a file here, the other was dropped on
\* the way and a file only it accepts is not returned
C27_Witness ==
    /\ chain_answer # <<>>
    /\ chain_state[1].path_elements = << <<"a">>, <<"b">> >>
    /\ Len(chain_seeds.patterns) = 2
    /\ chain_state[1].matched_inherit.patterns = <<>>
    /\ chain_state[1].parent[1].matched_inherit.patterns # <<>>
    /\ chain_state[1].unmatched.patterns = <<>>
    /\ chain_state[1].matched_and_subdir.patterns = <<>>
    /\ chain_state[1].matched_no_subdir.patterns = <<>>
    /\ chain_files = ChainFiles
    /\ chain_answer[1] = {<<"x">>}

\* C28, as stated: parent_has_patterns is true if and only if the state or
\* one of its ancestors in the chain has a non-empty matched_inherit bag.
C28_FlagCountsOwnBag ==
    (chain_state # <<>>) =>
        (chain_state[1].parent_has_patterns <=> absorbed(chain_state[1]) # <<>>)

\* C28, amended: parent_has_patterns is true if and only if one of the
\* state's ancestors in the chain has a non-empty matched_inherit bag; the
\* state's own bag does not count.
C28_FlagCountsAncestors ==
    (chain_state # <<>>) =>
        (chain_state[1].parent_has_patterns
            <=> /\ chain_state[1].parent # <<>>
                /\ absorbed(chain_state[1].parent[1]) # <<>>)

\* two levels below the root: the flag is set by the root's bag alone, the
\* bags of the parent and of the state itself being empty
C28_Witness ==
    /\ chain_state # <<>>
    /\ Len(chain_state[1].path_elements) = 2
    /\ chain_state[1].parent_has_patterns
    /\ chain_state[1].matched_inherit.patterns = <<>>
    /\ chain_state[1].parent[1].matched_inherit.patterns = <<>>
    /\ chain_state[1].parent[1].parent[1].matched_inherit.patterns # <<>>

\* the state's matched_inherit, matched_and_subdir and unmatched bags are empty
own_bags_empty(state) ==
    /\ state.matched_inherit.patterns = <<>>
    /\ state.matched_and_subdir.patterns = <<>>
    /\ state.unmatched.patterns = <<>>

\* the same of the state and of every state up its chain
RECURSIVE chain_bags_empty(_)
chain_bags_empty(state) ==
    /\ own_bags_empty(state)
    /\ (state.parent # <<>>) => chain_bags_empty(state.parent[1])

\* no state above this one holds a pattern in matched_inherit
no_ancestor_inherits(state) ==
    (state.parent # <<>>) => absorbed(state.parent[1]) = <<>>

\* the directory received last
last_dir == visited[Len(visited)]

\* the file names emitted for directory d
emitted_at(d) == {e[2] : e \in {x \in emitted_set : x[1] = d}}

\* the listed files of directory d that the patterns select
selected_at(d) == {f \in listed(listing, d) : selected(fset, d, f)}

\* _receive got as far as asking the include state about subdirectories
include_asked ==
    /\ pc \in {"walking", "done"}
    /\ visited # <<>>
    /\ ~matches_all_files_all_subdirs(exc_state[1])

C30_NothingEmittedBelowCut ==
    pc \in {"walking", "done"} =>
        \A k \in 1..Len(emitted) : \A p \in pruned : ~below(emitted[k][1], p)

\* the list walker went on below a directory whose dirs list was emptied and
\* yielded a directory with a file that an include pattern and an exclude
\* pattern match; the file is not emitted
C30_Witness ==
    /\ pc = "done"
    /\ cfg.walker = "walk_from_list"
    /\ \E p \in pruned : \E k \in 1..Len(visited) :
          /\ below(visited[k], p)
          /\ \E f \in listed(listing, visited[k]) :
                /\ any_matches(fset.include.patterns, visited[k], f)
                /\ any_matches(fset.exclude.patterns, visited[k], f)
                /\ <<visited[k], f>> \notin emitted_set
====
